---------------------------- MODULE Spec2Model ----------------------------
(***************************************************************************)
(* A model of the ARM7 core of src/devices/cpu/arm7/arm7.cpp: the pending  *)
(* exception flags, the mode cache and register view, the CP15 registers,  *)
(* the fault decision table, the two-level page-table walker, the          *)
(* instruction prefetch queue and the execute loop.                        *)
(*                                                                         *)
(* A 32-bit word is the pair <<h, l>> of its bits 31..20 and its bits      *)
(* 19..0: the word's value is h * 2^20 + l.  The split is the one of a     *)
(* section (1 MiB) address, and every operation on words below is the      *)
(* arithmetic of uint32_t, modulo 2^32.                                    *)
(***************************************************************************)
EXTENDS Integers, Sequences, FiniteSets, TLC

(***************************************************************************)
(* 32-bit words                                                            *)
(***************************************************************************)
HiMod == 2^12
LoMod == 2^20

W(h, l) == <<h, l>>
Hi(w) == w[1]
Lo(w) == w[2]
W0 == W(0, 0)
WOnes == W(HiMod - 1, LoMod - 1)

\* bits lo .. lo+width-1 of the natural number n
Bits(n, lo, width) == (n \div (2^lo)) % (2^width)

\* bits lo .. lo+width-1 of the word w, for a field on one side of bit 20
BitsW(w, lo, width) ==
    IF lo >= 20 THEN Bits(Hi(w), lo - 20, width) ELSE Bits(Lo(w), lo, width)

\* w + k modulo 2^32, for an integer k of either sign with |k| < 2^30
AddW(w, k) ==
    LET s == Lo(w) + k
    IN  W((Hi(w) + (s \div LoMod)) % HiMod, s % LoMod)

\* a + b modulo 2^32
AddWW(a, b) ==
    LET s == Lo(a) + Lo(b)
    IN  W((Hi(a) + Hi(b) + (s \div LoMod)) % HiMod, s % LoMod)


\* w with its low n bits cleared (w & ~(2^n - 1)), n <= 20
ClearLow(w, n) == W(Hi(w), (Lo(w) \div (2^n)) * (2^n))

\* w | k for a k whose bits are among the low 20 and are clear in w
SetBit(w, b) == IF Bits(Lo(w), b, 1) = 1 THEN w ELSE W(Hi(w), Lo(w) + 2^b)

(***************************************************************************)
(* Constants of the core                                                   *)
(***************************************************************************)
\* processor modes: the low four bits of the CPSR mode field
eARM7_MODE_USER == 0
eARM7_MODE_FIQ == 1
eARM7_MODE_IRQ == 2
eARM7_MODE_SVC == 3
eARM7_MODE_ABT == 7
eARM7_MODE_UND == 11
eARM7_MODE_SYS == 15
Modes == {eARM7_MODE_USER, eARM7_MODE_FIQ, eARM7_MODE_IRQ, eARM7_MODE_SVC,
          eARM7_MODE_ABT, eARM7_MODE_UND, eARM7_MODE_SYS}

\* CPSR bit numbers
N_BIT == 31
Z_BIT == 30
C_BIT == 29
V_BIT == 28
I_BIT == 7
F_BIT == 6
T_BIT == 5

\* CP15 control register bits
COPRO_CTRL_MMU_EN == 1

\* first-level and second-level descriptor kinds
COPRO_TLB_UNMAPPED == 0
COPRO_TLB_COARSE_TABLE == 1
COPRO_TLB_SECTION_TABLE == 2
COPRO_TLB_FINE_TABLE == 3
COPRO_TLB_LARGE_PAGE == 1
COPRO_TLB_SMALL_PAGE == 2
COPRO_TLB_TINY_PAGE == 3

\* translation flags; the write flag is bit 8 of the fault table index
ARM7_TLB_ABORT_D == 1
ARM7_TLB_READ == 4
ARM7_TLB_WRITE == 256

FAULT_NONE == "FAULT_NONE"
FAULT_DOMAIN == "FAULT_DOMAIN"
FAULT_PERMISSION == "FAULT_PERMISSION"

\* interrupt lines of execute_set_input
ARM7_IRQ_LINE == 0
ARM7_FIRQ_LINE == 1
ARM7_ABORT_EXCEPTION == 2
ARM7_ABORT_PREFETCH_EXCEPTION == 3
ARM7_UNDEFINE_EXCEPTION == 4

\* condition codes, instruction bits 31..28
COND_EQ == 0
COND_NE == 1
COND_CS == 2
COND_CC == 3
COND_MI == 4
COND_PL == 5
COND_VS == 6
COND_VC == 7
COND_HI == 8
COND_LS == 9
COND_GE == 10
COND_LT == 11
COND_GT == 12
COND_LE == 13
COND_AL == 14
COND_NV == 15

(***************************************************************************)
(* State                                                                   *)
(***************************************************************************)
VARIABLES
    m_r,                     \* the register file: name -> word
    m_mode,                  \* the cached mode, low four bits
    m_reg_group,             \* the mode whose register view is active
    m_pendingIrq, m_pendingFiq, m_pendingAbtD, m_pendingAbtP,
    m_pendingUnd, m_pendingSwi,
    m_pending_interrupt,     \* the aggregate flag
    m_control,               \* CP15 control (a number below 2^14)
    m_tlbBase,               \* CP15 TTB (word)
    m_tlb_base_mask,         \* TTB & COPRO_TLB_BASE_MASK (word)
    m_tlb_base,              \* physical address the table pointer designates
    m_faultStatus,           \* <<data, prefetch>> (words)
    m_faultAddress,          \* FAR (word)
    m_fcsePID,               \* word
    m_pid_offset,            \* word
    m_domainAccessControl,   \* DACR (word)
    m_decoded_access_control,\* 16 bytes
    s_fault_table,           \* 512 entries
    m_insn_prefetch_depth,
    m_insn_prefetch_count,   \* uint32_t: the integer c stands for c mod 2^32
    m_insn_prefetch_index,
    m_insn_prefetch_buffer, m_insn_prefetch_address, m_insn_prefetch_translated,
    m_insn,                  \* the instruction word being executed
    m_icount,                \* signed cycle counter
    m_mode_changed,          \* the mode-change latch
    m_prefetch_enabled,
    m_archRev,
    tcm,                     \* the members of the ARM946ES: CP15 and the TCMs
    variant,                 \* the execute_core variant running and its position
    mem,                     \* bus memory: physical word address -> word
    saved,                   \* the saved states: empty, or the last one
    fatal,                   \* fatalerror() was called: the emulation stopped
    op                       \* the last operation, its inputs and its result

coreVars == <<m_r, m_mode, m_reg_group>>
pendVars == <<m_pendingIrq, m_pendingFiq, m_pendingAbtD, m_pendingAbtP,
              m_pendingUnd, m_pendingSwi, m_pending_interrupt>>
cp15Vars == <<m_control, m_tlbBase, m_tlb_base_mask, m_tlb_base, m_fcsePID,
              m_pid_offset, m_domainAccessControl, m_decoded_access_control>>
faultVars == <<m_faultStatus, m_faultAddress>>
queueVars == <<m_insn_prefetch_depth, m_insn_prefetch_count, m_insn_prefetch_index,
               m_insn_prefetch_buffer, m_insn_prefetch_address,
               m_insn_prefetch_translated>>
runVars == <<m_insn, m_icount, m_mode_changed, variant>>
\* the configuration and the ARM946ES members: no handler of the base class
\* writes them
confVars == <<m_prefetch_enabled, m_archRev, tcm>>

vars == <<coreVars, pendVars, cp15Vars, faultVars, s_fault_table, queueVars,
          runVars, confVars, mem, saved, fatal, op>>

(***************************************************************************)
(* Bus memory                                                              *)
(***************************************************************************)
\* m_program->read_dword / m_direct->read_dword of an aligned address; an
\* address no device answers reads as 0
read_dword(a) == IF a \in DOMAIN mem THEN mem[a] ELSE W0

\* m_program->write_dword of an aligned address
write_dword(a, data) == IF a \in DOMAIN mem THEN [mem EXCEPT ![a] = data] ELSE mem

(***************************************************************************)
(* The permission function and the fault decision table                    *)
(***************************************************************************)
\* a permission function whose access permission 2 makes the privileged
\* modes, not the user mode, read-only
decode_fault_privileged_read_only(mode, ap, access_control, system, rom, write) ==
    CASE access_control % 4 = 0 -> FAULT_DOMAIN
      [] access_control % 4 = 1 ->
           (CASE ap % 4 = 0 ->
                    IF system # 0
                    THEN IF rom # 0
                         THEN FAULT_PERMISSION
                         ELSE IF mode = eARM7_MODE_USER \/ write # 0
                              THEN FAULT_PERMISSION
                              ELSE FAULT_NONE
                    ELSE IF rom # 0
                         THEN IF write # 0 THEN FAULT_PERMISSION ELSE FAULT_NONE
                         ELSE FAULT_PERMISSION
              [] ap % 4 = 1 ->
                    IF mode = eARM7_MODE_USER THEN FAULT_PERMISSION ELSE FAULT_NONE
              [] ap % 4 = 2 ->
                    IF mode # eARM7_MODE_USER /\ write # 0
                    THEN FAULT_PERMISSION
                    ELSE FAULT_NONE
              [] ap % 4 = 3 -> FAULT_NONE)
      [] access_control % 4 = 2 -> FAULT_DOMAIN
      [] access_control % 4 = 3 -> FAULT_NONE

decode_fault(mode, ap, access_control, system, rom, write) ==
    CASE access_control % 4 = 0 -> FAULT_DOMAIN
      [] access_control % 4 = 1 ->
           (CASE ap % 4 = 0 ->
                    IF system # 0
                    THEN IF rom # 0
                         THEN FAULT_PERMISSION
                         ELSE IF mode = eARM7_MODE_USER \/ write # 0
                              THEN FAULT_PERMISSION
                              ELSE FAULT_NONE
                    ELSE IF rom # 0
                         THEN IF write # 0 THEN FAULT_PERMISSION ELSE FAULT_NONE
                         ELSE FAULT_PERMISSION
              [] ap % 4 = 1 ->
                    IF mode = eARM7_MODE_USER THEN FAULT_PERMISSION ELSE FAULT_NONE
              [] ap % 4 = 2 ->
                    IF mode = eARM7_MODE_USER /\ write # 0
                    THEN FAULT_PERMISSION
                    ELSE FAULT_NONE
              [] ap % 4 = 3 -> FAULT_NONE)
      [] access_control % 4 = 2 -> FAULT_DOMAIN
      [] access_control % 4 = 3 -> FAULT_NONE

\* the table update_fault_table builds from the control register value
update_fault_table(control) ==
    LET system == IF Bits(control, 8, 1) = 1 THEN 1 ELSE 0
        rom == IF Bits(control, 9, 1) = 1 THEN 1 ELSE 0
    IN  [index \in 0..511 |->
            decode_fault(Bits(index, 0, 4), Bits(index, 4, 2), Bits(index, 6, 2),
                         system, rom, Bits(index, 8, 1))]

\* the domain number of a first-level descriptor, (desc_lvl1 >> 5) & 0xf
DomainOf(desc_lvl1) == Bits(Lo(desc_lvl1), 5, 4)

\* a read lookup that leaves the access permission out of the index
detect_read_fault_no_ap(desc_lvl1, ap) ==
    s_fault_table[m_mode + m_decoded_access_control[DomainOf(desc_lvl1)]]

\* ap is already shifted to bits 5..4; the three fields of the index do not
\* overlap, so their bitwise or is their sum
detect_read_fault(desc_lvl1, ap) ==
    s_fault_table[m_mode + ap + m_decoded_access_control[DomainOf(desc_lvl1)]]

detect_fault(desc_lvl1, ap, flags) ==
    s_fault_table[m_mode + ap + m_decoded_access_control[DomainOf(desc_lvl1)]
                  + Bits(flags, 8, 1) * ARM7_TLB_WRITE]

(***************************************************************************)
(* The page-table walker                                                   *)
(***************************************************************************)
\* a remap applied to every address
FcseRemap_always(addr) == AddWW(addr, m_pid_offset)

\* if (addr < 0x2000000) addr += m_pid_offset
FcseRemap(addr) == IF Hi(addr) < 32 THEN AddWW(addr, m_pid_offset) ELSE addr

\* m_tlb_base[addr >> COPRO_TLB_VADDR_FLTI_MASK_SHIFT]
FirstLevelDescriptor(addr) == read_dword(AddW(m_tlb_base, 4 * Hi(addr)))

\* coarse: (first_desc & 0xfffffc00) | ((vaddr & 0x000ff000) >> 10)
\* fine:   (first_desc & 0xfffff000) | ((vaddr & 0x000ffc00) >> 8)
arm7_tlb_get_second_level_descriptor(coarse, first_desc, vaddr) ==
    IF coarse
    THEN read_dword(W(Hi(first_desc),
                      (Lo(first_desc) \div 1024) * 1024 + Bits(Lo(vaddr), 12, 8) * 4))
    ELSE read_dword(W(Hi(first_desc),
                      (Lo(first_desc) \div 4096) * 4096 + Bits(Lo(vaddr), 10, 10) * 4))

\* (m_domainAccessControl >> ((desc_lvl1 >> 4) & 0x1e)) & 3
DomainPermission(desc_lvl1) ==
    BitsW(m_domainAccessControl, 2 * DomainOf(desc_lvl1), 2)

\* (desc & mask) | (addr & ~mask) for the page masks
\* the section base alone, without the offset inside the section (the variant
\* C6 is tested against)
SectionAddr_base(desc, addr) == W(Hi(desc), 0)
SectionAddr(desc, addr) == W(Hi(desc), Lo(addr))
LargePageAddr(desc, addr) == W(Hi(desc), (Lo(desc) \div 65536) * 65536 + (Lo(addr) % 65536))
SmallPageAddr(desc, addr) == W(Hi(desc), (Lo(desc) \div 4096) * 4096 + (Lo(addr) % 4096))
TinyPageAddr(desc, addr) == W(Hi(desc), (Lo(desc) \div 1024) * 1024 + (Lo(addr) % 1024))

\* the AP of the first subpage, whatever the address
SmallPageAp_first(desc_lvl2, addr) == Bits(Bits(Lo(desc_lvl2), 4, 8), 0, 2) * 16

\* ((((desc_lvl2 >> 4) & 0xFF) >> (((addr >> 10) & 3) << 1)) & 3) << 4
SmallPageAp(desc_lvl2, addr) ==
    Bits(Bits(Lo(desc_lvl2), 4, 8), 2 * Bits(Lo(addr), 10, 2), 2) * 16

\* results of a walk: the address left in addr, the value returned, and for
\* arm7_tlb_translate the fault state it wrote; stop is the fatalerror call
TlbOk(a) == [ok |-> TRUE, addr |-> a, fault |-> FALSE, fsr |-> 0, stop |-> FALSE]
\* a fault that leaves the status out (the variant C7 is tested against)
TlbFault_no_status(a, status) ==
    [ok |-> FALSE, addr |-> a, fault |-> TRUE, fsr |-> 0, stop |-> FALSE]
TlbFault(a, status) ==
    [ok |-> FALSE, addr |-> a, fault |-> TRUE, fsr |-> status, stop |-> FALSE]
TlbFail(a) == [ok |-> FALSE, addr |-> a, fault |-> FALSE, fsr |-> 0, stop |-> FALSE]
TlbStop(a) == [ok |-> FALSE, addr |-> a, fault |-> FALSE, fsr |-> 0, stop |-> TRUE]

arm7_tlb_translate(vaddr, flags) ==
    LET addr == FcseRemap(vaddr)
        desc_lvl1 == FirstLevelDescriptor(addr)
        lvl1_type == Lo(desc_lvl1) % 4
        domain == DomainOf(desc_lvl1)
    IN  IF lvl1_type = COPRO_TLB_SECTION_TABLE
        THEN LET fault == detect_fault(desc_lvl1, Bits(Lo(desc_lvl1), 10, 2) * 16, flags)
             IN  IF fault = FAULT_NONE
                 THEN TlbOk(SectionAddr(desc_lvl1, addr))
                 ELSE TlbFault(addr, (IF fault = FAULT_DOMAIN THEN 9 ELSE 13) + domain * 16)
        ELSE IF lvl1_type = COPRO_TLB_UNMAPPED
        THEN TlbFault(addr, 5)
        ELSE LET permission == DomainPermission(desc_lvl1)
                 desc_lvl2 == arm7_tlb_get_second_level_descriptor(
                                  lvl1_type = COPRO_TLB_COARSE_TABLE, desc_lvl1, addr)
                 lvl2_type == Lo(desc_lvl2) % 4
             IN  IF permission # 1 /\ permission # 3
                 THEN TlbStop(addr)
                 ELSE CASE lvl2_type = COPRO_TLB_UNMAPPED ->
                               TlbFault(addr, 7 + domain * 16)
                        [] lvl2_type = COPRO_TLB_LARGE_PAGE ->
                               TlbOk(LargePageAddr(desc_lvl2, addr))
                        [] lvl2_type = COPRO_TLB_SMALL_PAGE ->
                               LET fault == detect_fault(desc_lvl1,
                                                SmallPageAp(desc_lvl2, addr), flags)
                               IN  IF fault = FAULT_NONE
                                   THEN TlbOk(SmallPageAddr(desc_lvl2, addr))
                                   ELSE TlbFault(addr,
                                            (IF fault = FAULT_DOMAIN THEN 11 ELSE 15)
                                            + domain * 16)
                        [] lvl2_type = COPRO_TLB_TINY_PAGE ->
                               TlbOk(TinyPageAddr(desc_lvl2, addr))

arm7_tlb_translate_check(vaddr) ==
    LET addr == FcseRemap(vaddr)
        desc_lvl1 == FirstLevelDescriptor(addr)
        lvl1_type == Lo(desc_lvl1) % 4
    IN  IF lvl1_type = COPRO_TLB_SECTION_TABLE
        THEN IF detect_read_fault(desc_lvl1, Bits(Lo(desc_lvl1), 10, 2) * 16) = FAULT_NONE
             THEN TlbOk(SectionAddr(desc_lvl1, addr))
             ELSE TlbFail(addr)
        ELSE IF lvl1_type = COPRO_TLB_UNMAPPED
        THEN TlbFail(addr)
        ELSE LET permission == DomainPermission(desc_lvl1)
                 desc_lvl2 == arm7_tlb_get_second_level_descriptor(
                                  lvl1_type = COPRO_TLB_COARSE_TABLE, desc_lvl1, addr)
                 lvl2_type == Lo(desc_lvl2) % 4
             IN  IF permission # 1 /\ permission # 3
                 THEN TlbStop(addr)
                 ELSE CASE lvl2_type = COPRO_TLB_UNMAPPED -> TlbFail(addr)
                        [] lvl2_type = COPRO_TLB_LARGE_PAGE ->
                               TlbOk(LargePageAddr(desc_lvl2, addr))
                        [] lvl2_type = COPRO_TLB_SMALL_PAGE ->
                               IF detect_read_fault(desc_lvl1,
                                      SmallPageAp(desc_lvl2, addr)) = FAULT_NONE
                               THEN TlbOk(SmallPageAddr(desc_lvl2, addr))
                               ELSE TlbFail(addr)
                        [] lvl2_type = COPRO_TLB_TINY_PAGE ->
                               TlbOk(TinyPageAddr(desc_lvl2, addr))

(***************************************************************************)
(* Registers and modes                                                     *)
(***************************************************************************)
GeneralRegs == {"R0", "R1", "R2", "R3", "R4", "R5", "R6", "R7", "R8", "R9",
                "R10", "R11", "R12", "R13", "R14", "R15"}
BankedRegs == {"R8_FIQ", "R9_FIQ", "R10_FIQ", "R11_FIQ", "R12_FIQ", "R13_FIQ",
               "R14_FIQ", "SPSR_FIQ", "R13_IRQ", "R14_IRQ", "SPSR_IRQ",
               "R13_SVC", "R14_SVC", "SPSR_SVC", "R13_ABT", "R14_ABT", "SPSR_ABT",
               "R13_UND", "R14_UND", "SPSR_UND"}
Regs == GeneralRegs \cup {"CPSR"} \cup BankedRegs

\* GET_MODE: the mode field of a CPSR value, masked by MODE_FLAG
ModeOf(cpsr) == Bits(Lo(cpsr), 0, 4)
FlagSet(cpsr, bit) == BitsW(cpsr, bit, 1) = 1

\* no register view selected yet (the null pointer device_start leaves)
NoGroup == -1

\* sRegisterTable[group]: the slot of the link register and of the SPSR in the
\* view of a mode (user and system share the user slots and have no SPSR)
LinkSlot(group) ==
    CASE group = eARM7_MODE_FIQ -> "R14_FIQ"
      [] group = eARM7_MODE_IRQ -> "R14_IRQ"
      [] group = eARM7_MODE_SVC -> "R14_SVC"
      [] group = eARM7_MODE_ABT -> "R14_ABT"
      [] group = eARM7_MODE_UND -> "R14_UND"
      [] OTHER -> "R14"
SpsrSlot(group) ==
    CASE group = eARM7_MODE_FIQ -> "SPSR_FIQ"
      [] group = eARM7_MODE_IRQ -> "SPSR_IRQ"
      [] group = eARM7_MODE_SVC -> "SPSR_SVC"
      [] group = eARM7_MODE_ABT -> "SPSR_ABT"
      [] group = eARM7_MODE_UND -> "SPSR_UND"
      [] OTHER -> "CPSR"

\* update_reg_ptr: the view of the mode in the CPSR
update_reg_ptr(cpsr) == ModeOf(cpsr)

\* set_cpsr(val) from a core whose cached mode is mode and whose view is group:
\* the new CPSR, cached mode and view
set_cpsr(val, mode, group) ==
    LET cpsr == SetBit(val, 4)
        newmode == ModeOf(cpsr)
    IN  IF newmode # mode
        THEN [cpsr |-> cpsr, mode |-> newmode, group |-> update_reg_ptr(cpsr)]
        ELSE [cpsr |-> cpsr, mode |-> mode, group |-> group]

\* SwitchMode(cpsr_mode_val): set_cpsr((CPSR & ~MODE_FLAG) | cpsr_mode_val)
SwitchMode(cpsr, cpsr_mode_val, mode, group) ==
    set_cpsr(W(Hi(cpsr), (Lo(cpsr) \div 16) * 16 + cpsr_mode_val), mode, group)

\* update_irq_state: the aggregate of the six pending flags
update_irq_state(irq, fiq, abtd, abtp, und, swi) ==
    irq \/ fiq \/ abtd \/ abtp \/ und \/ swi

\* the record of the last operation
Op(name, addr, n, ok, ret) ==
    [name |-> name, addr |-> addr, n |-> n, ok |-> ok, ret |-> ret]

(***************************************************************************)
(* Start, reset, save and load                                             *)
(***************************************************************************)
m_vectorbase == W0

ZeroRegs == [r \in Regs |-> W0]
ZeroSlots == [i \in 0..2 |-> W0]

\* a reset that leaves the interrupt masks clear
ResetMode_unmasked(mode, group) ==
    SwitchMode(W(0, 16), eARM7_MODE_SVC, mode, group)

\* CPSR = I_MASK | F_MASK | 0x10, then SwitchMode(eARM7_MODE_SVC)
ResetMode(mode, group) ==
    SwitchMode(W(0, 2^I_BIT + 2^F_BIT + 16), eARM7_MODE_SVC, mode, group)

\* the register file device_reset leaves
ResetRegs(mode, group) ==
    [ZeroRegs EXCEPT !["CPSR"] = ResetMode(mode, group).cpsr,
                     !["R15"] = m_vectorbase]

device_reset ==
    /\ ~fatal
    /\ variant.at = "idle"
    /\ m_r' = ResetRegs(m_mode, m_reg_group)
    /\ m_mode' = ResetMode(m_mode, m_reg_group).mode
    /\ m_reg_group' = ResetMode(m_mode, m_reg_group).group
    /\ m_pendingIrq' = FALSE
    /\ m_pendingFiq' = FALSE
    /\ m_pendingAbtD' = FALSE
    /\ m_pendingAbtP' = FALSE
    /\ m_pendingUnd' = FALSE
    /\ m_pendingSwi' = FALSE
    /\ m_pending_interrupt' = FALSE
    /\ m_control' = 0
    /\ m_tlbBase' = W0
    /\ m_tlb_base_mask' = W0
    /\ m_faultStatus' = <<W0, W0>>
    /\ m_faultAddress' = W0
    /\ m_fcsePID' = W0
    /\ m_pid_offset' = W0
    /\ m_domainAccessControl' = W0
    /\ m_decoded_access_control' = [d \in 0..15 |-> 0]
    /\ op' = Op("device_reset", W0, 0, TRUE, W0)
    /\ UNCHANGED <<m_tlb_base, s_fault_table, queueVars, runVars, confVars, mem,
                   saved, fatal>>

\* the items device_start registers with save_item
SavedItems ==
    [depth |-> m_insn_prefetch_depth,
     count |-> m_insn_prefetch_count,
     index |-> m_insn_prefetch_index,
     buffer |-> m_insn_prefetch_buffer,
     address |-> m_insn_prefetch_address,
     r |-> m_r,
     pendingIrq |-> m_pendingIrq,
     pendingFiq |-> m_pendingFiq,
     pendingAbtD |-> m_pendingAbtD,
     pendingAbtP |-> m_pendingAbtP,
     pendingUnd |-> m_pendingUnd,
     pendingSwi |-> m_pendingSwi,
     pending_interrupt |-> m_pending_interrupt,
     control |-> m_control,
     tlbBase |-> m_tlbBase,
     tlb_base_mask |-> m_tlb_base_mask,
     faultStatus |-> m_faultStatus,
     faultAddress |-> m_faultAddress,
     fcsePID |-> m_fcsePID,
     pid_offset |-> m_pid_offset,
     domainAccessControl |-> m_domainAccessControl,
     decoded_access_control |-> m_decoded_access_control]

\* the members of the core that no save_item registers
UnsavedItems ==
    [mode |-> m_mode,
     tlb_base |-> m_tlb_base,
     translated |-> m_insn_prefetch_translated]

NoSave == <<>>

\* the save-state framework writes the registered items out; the second
\* element remembers the members it does not write, for comparison only
SaveState ==
    /\ ~fatal
    /\ variant.at = "idle"
    /\ saved' = <<SavedItems, UnsavedItems>>
    /\ op' = Op("save", W0, 0, TRUE, W0)
    /\ UNCHANGED <<coreVars, pendVars, cp15Vars, faultVars, s_fault_table,
                   queueVars, runVars, confVars, mem, fatal>>

\* postload: update_reg_ptr()
postload(cpsr) == update_reg_ptr(cpsr)

\* the framework reads the registered items back and calls postload
LoadState ==
    /\ ~fatal
    /\ variant.at = "idle"
    /\ saved # NoSave
    /\ m_insn_prefetch_depth' = saved[1].depth
    /\ m_insn_prefetch_count' = saved[1].count
    /\ m_insn_prefetch_index' = saved[1].index
    /\ m_insn_prefetch_buffer' = saved[1].buffer
    /\ m_insn_prefetch_address' = saved[1].address
    /\ m_r' = saved[1].r
    /\ m_pendingIrq' = saved[1].pendingIrq
    /\ m_pendingFiq' = saved[1].pendingFiq
    /\ m_pendingAbtD' = saved[1].pendingAbtD
    /\ m_pendingAbtP' = saved[1].pendingAbtP
    /\ m_pendingUnd' = saved[1].pendingUnd
    /\ m_pendingSwi' = saved[1].pendingSwi
    /\ m_pending_interrupt' = saved[1].pending_interrupt
    /\ m_control' = saved[1].control
    /\ m_tlbBase' = saved[1].tlbBase
    /\ m_tlb_base_mask' = saved[1].tlb_base_mask
    /\ m_faultStatus' = saved[1].faultStatus
    /\ m_faultAddress' = saved[1].faultAddress
    /\ m_fcsePID' = saved[1].fcsePID
    /\ m_pid_offset' = saved[1].pid_offset
    /\ m_domainAccessControl' = saved[1].domainAccessControl
    /\ m_decoded_access_control' = saved[1].decoded_access_control
    /\ m_reg_group' = postload(saved[1].r["CPSR"])
    /\ op' = Op("load", W0, 0, TRUE, W0)
    /\ UNCHANGED <<m_mode, m_tlb_base, m_insn_prefetch_translated, s_fault_table,
                   runVars, confVars, mem, saved, fatal>>

\* a call of set_cpsr (by an instruction handler or by SwitchMode)
SetCpsr(val) ==
    /\ ~fatal
    /\ variant.at = "idle"
    /\ m_r' = [m_r EXCEPT !["CPSR"] = set_cpsr(val, m_mode, m_reg_group).cpsr]
    /\ m_mode' = set_cpsr(val, m_mode, m_reg_group).mode
    /\ m_reg_group' = set_cpsr(val, m_mode, m_reg_group).group
    /\ op' = Op("set_cpsr", val, 0, TRUE, W0)
    /\ UNCHANGED <<pendVars, cp15Vars, faultVars, s_fault_table, queueVars,
                   runVars, confVars, mem, saved, fatal>>

(***************************************************************************)
(* Interrupt lines                                                         *)
(***************************************************************************)
\* execute_set_input without the closing update_irq_state(): the line's flag
\* alone changes (the variant C1 is tested against)
execute_set_input_flag_only(irqline, state) ==
    /\ ~fatal
    /\ variant.at = "idle"
    /\ m_pendingIrq' = IF irqline = ARM7_IRQ_LINE THEN state # 0 ELSE m_pendingIrq
    /\ m_pendingFiq' = IF irqline = ARM7_FIRQ_LINE THEN state # 0 ELSE m_pendingFiq
    /\ m_pendingAbtD' = IF irqline = ARM7_ABORT_EXCEPTION THEN state # 0 ELSE m_pendingAbtD
    /\ m_pendingAbtP' = IF irqline = ARM7_ABORT_PREFETCH_EXCEPTION THEN state # 0
                        ELSE m_pendingAbtP
    /\ m_pendingUnd' = IF irqline = ARM7_UNDEFINE_EXCEPTION THEN state # 0 ELSE m_pendingUnd
    /\ op' = Op("execute_set_input", W0, irqline, state # 0, W0)
    /\ UNCHANGED <<m_pendingSwi, m_pending_interrupt, coreVars, cp15Vars, faultVars,
                   s_fault_table, queueVars, runVars, confVars, mem, saved, fatal>>

\* execute_set_input with the IRQ case as the default of the switch
execute_set_input_default_irq(irqline, state) ==
    /\ ~fatal
    /\ variant.at = "idle"
    /\ m_pendingIrq' = IF irqline \notin {ARM7_FIRQ_LINE, ARM7_ABORT_EXCEPTION,
                                          ARM7_ABORT_PREFETCH_EXCEPTION,
                                          ARM7_UNDEFINE_EXCEPTION}
                        THEN state # 0 ELSE m_pendingIrq
    /\ m_pendingFiq' = IF irqline = ARM7_FIRQ_LINE THEN state # 0 ELSE m_pendingFiq
    /\ m_pendingAbtD' = IF irqline = ARM7_ABORT_EXCEPTION THEN state # 0 ELSE m_pendingAbtD
    /\ m_pendingAbtP' = IF irqline = ARM7_ABORT_PREFETCH_EXCEPTION THEN state # 0
                        ELSE m_pendingAbtP
    /\ m_pendingUnd' = IF irqline = ARM7_UNDEFINE_EXCEPTION THEN state # 0 ELSE m_pendingUnd
    /\ m_pendingSwi' = m_pendingSwi
    /\ m_pending_interrupt' = update_irq_state(m_pendingIrq', m_pendingFiq', m_pendingAbtD',
                                               m_pendingAbtP', m_pendingUnd', m_pendingSwi')
    /\ op' = Op("execute_set_input", W0, irqline, state # 0, W0)
    /\ UNCHANGED <<coreVars, cp15Vars, faultVars, s_fault_table, queueVars,
                   runVars, confVars, mem, saved, fatal>>

execute_set_input(irqline, state) ==
    /\ ~fatal
    /\ variant.at = "idle"
    /\ m_pendingIrq' = IF irqline = ARM7_IRQ_LINE THEN state # 0 ELSE m_pendingIrq
    /\ m_pendingFiq' = IF irqline = ARM7_FIRQ_LINE THEN state # 0 ELSE m_pendingFiq
    /\ m_pendingAbtD' = IF irqline = ARM7_ABORT_EXCEPTION THEN state # 0 ELSE m_pendingAbtD
    /\ m_pendingAbtP' = IF irqline = ARM7_ABORT_PREFETCH_EXCEPTION THEN state # 0
                        ELSE m_pendingAbtP
    /\ m_pendingUnd' = IF irqline = ARM7_UNDEFINE_EXCEPTION THEN state # 0 ELSE m_pendingUnd
    /\ m_pendingSwi' = m_pendingSwi
    /\ m_pending_interrupt' = update_irq_state(m_pendingIrq', m_pendingFiq', m_pendingAbtD',
                                               m_pendingAbtP', m_pendingUnd', m_pendingSwi')
    /\ op' = Op("execute_set_input", W0, irqline, state # 0, W0)
    /\ UNCHANGED <<coreVars, cp15Vars, faultVars, s_fault_table, queueVars,
                   runVars, confVars, mem, saved, fatal>>

(***************************************************************************)
(* Coprocessor callbacks                                                   *)
(***************************************************************************)
\* m_pendingUnd = true; m_pending_interrupt = true
RaiseUndefined ==
    /\ m_pendingUnd' = TRUE
    /\ m_pending_interrupt' = TRUE
    /\ UNCHANGED <<m_pendingIrq, m_pendingFiq, m_pendingAbtD, m_pendingAbtP, m_pendingSwi>>

\* arm7_do_callback, arm7_dt_r_callback and arm7_dt_w_callback of a core without
\* the XScale flag
arm7_do_callback ==
    /\ ~fatal
    /\ variant.at = "idle"
    /\ RaiseUndefined
    /\ op' = Op("arm7_do_callback", W0, 0, TRUE, W0)
    /\ UNCHANGED <<coreVars, cp15Vars, faultVars, s_fault_table, queueVars,
                   runVars, confVars, mem, saved, fatal>>

\* data & COPRO_CTRL_MASK (0x338f: bits 0..3, 7..9, 12, 13)
CtrlMasked(data) ==
    Bits(Lo(data), 0, 4) + Bits(Lo(data), 7, 3) * 128 + Bits(Lo(data), 12, 2) * 4096

\* (((PID >> 25) & 0x7F)) * 0x2000000
PidOffset(pid) == W((Bits(Hi(pid), 5, 7) % 128) * 32, 0)

\* the two bits of each domain left in bits 1..0
DecodeAccessControl_unshifted(dacr) == [d \in 0..15 |-> BitsW(dacr, 2 * d, 2)]

\* ((DACR >> i) & 3) << 6 for i = 0, 2, .. 30
DecodeAccessControl(dacr) == [d \in 0..15 |-> BitsW(dacr, 2 * d, 2) * 64]

\* the members a coprocessor write or an instruction handler may change
Core == [r |-> m_r, mode |-> m_mode, group |-> m_reg_group,
         und |-> m_pendingUnd, pending |-> m_pending_interrupt,
         control |-> m_control, tlbBase |-> m_tlbBase,
         tlb_base_mask |-> m_tlb_base_mask, tlb_base |-> m_tlb_base,
         dacr |-> m_domainAccessControl, decoded |-> m_decoded_access_control,
         fsr |-> m_faultStatus, far |-> m_faultAddress,
         pid |-> m_fcsePID, pid_offset |-> m_pid_offset,
         mode_changed |-> m_mode_changed, icount |-> m_icount,
         count |-> m_insn_prefetch_count, index |-> m_insn_prefetch_index]

\* the step that leaves the members of Core as c has them
Commit(c) ==
    /\ m_r' = c.r
    /\ m_mode' = c.mode
    /\ m_reg_group' = c.group
    /\ m_pendingUnd' = c.und
    /\ m_pending_interrupt' = c.pending
    /\ m_control' = c.control
    /\ m_tlbBase' = c.tlbBase
    /\ m_tlb_base_mask' = c.tlb_base_mask
    /\ m_tlb_base' = c.tlb_base
    /\ m_domainAccessControl' = c.dacr
    /\ m_decoded_access_control' = c.decoded
    /\ m_faultStatus' = c.fsr
    /\ m_faultAddress' = c.far
    /\ m_fcsePID' = c.pid
    /\ m_pid_offset' = c.pid_offset
    /\ m_insn_prefetch_count' = c.count
    /\ m_insn_prefetch_index' = c.index
    /\ UNCHANGED <<m_pendingIrq, m_pendingFiq, m_pendingAbtD, m_pendingAbtP,
                   m_pendingSwi>>

\* arm7_rt_w_callback for a write of data to register cReg (operand op3) of
\* coprocessor cpnum, from the core state c
arm7_rt_w_callback(c, cpnum, cReg, op3, data) ==
    IF cpnum # 15
    THEN IF cpnum = 14
         THEN c
         ELSE [c EXCEPT !.und = TRUE, !.pending = TRUE]
    ELSE CASE cReg = 1 ->
                 [c EXCEPT !.control = CtrlMasked(data),
                           !.mode_changed =
                               IF CtrlMasked(data) % 2 # c.control % 2 THEN TRUE ELSE @]
           [] cReg = 2 ->
                 [c EXCEPT !.tlbBase = data,
                           !.tlb_base_mask = ClearLow(data, 14),
                           !.tlb_base = ClearLow(data, 14)]
           [] cReg = 3 ->
                 [c EXCEPT !.dacr = data, !.decoded = DecodeAccessControl(data)]
           [] cReg = 5 /\ op3 = 0 -> [c EXCEPT !.fsr = <<data, @[2]>>]
           [] cReg = 5 /\ op3 = 1 -> [c EXCEPT !.fsr = <<@[1], data>>]
           [] cReg = 6 -> [c EXCEPT !.far = data]
           [] cReg = 13 -> [c EXCEPT !.pid = data, !.pid_offset = PidOffset(data)]
           [] OTHER -> c

\* a coprocessor register write reaching the callback
CoproWrite(cpnum, cReg, op3, data) ==
    /\ ~fatal
    /\ variant.at = "idle"
    /\ Commit(arm7_rt_w_callback(Core, cpnum, cReg, op3, data))
    /\ m_mode_changed' = arm7_rt_w_callback(Core, cpnum, cReg, op3, data).mode_changed
    /\ op' = Op("arm7_rt_w_callback", data, cReg, cpnum = 15, W0)
    /\ UNCHANGED <<s_fault_table, m_insn_prefetch_depth, m_insn_prefetch_buffer,
                   m_insn_prefetch_address, m_insn_prefetch_translated, m_insn,
                   m_icount, variant, confVars, mem, saved, fatal>>

\* arm7_rt_r_callback of a core without the XScale flag: the value read
CoproRead(cReg, op3) ==
    CASE cReg = 1 -> W(0, m_control + 112 - Bits(m_control, 4, 3) * 16)
      [] cReg = 2 -> m_tlbBase
      [] cReg = 3 -> m_domainAccessControl
      [] cReg = 5 /\ op3 = 0 -> m_faultStatus[1]
      [] cReg = 5 /\ op3 = 1 -> m_faultStatus[2]
      [] cReg = 6 -> m_faultAddress
      [] cReg = 13 -> m_fcsePID
      [] OTHER -> W0

arm7_rt_r_callback(cpnum, cReg, op3) ==
    /\ ~fatal
    /\ variant.at = "idle"
    /\ IF cpnum # 15
       THEN /\ RaiseUndefined
            /\ op' = Op("arm7_rt_r_callback", W0, cReg, FALSE, W0)
       ELSE /\ UNCHANGED pendVars
            /\ op' = Op("arm7_rt_r_callback", W0, cReg, TRUE, CoproRead(cReg, op3))
    /\ UNCHANGED <<coreVars, cp15Vars, faultVars, s_fault_table, queueVars,
                   runVars, confVars, mem, saved, fatal>>

(***************************************************************************)
(* Translation and data access                                             *)
(***************************************************************************)
\* the state arm7_tlb_translate leaves when its result is t
TranslateEffect(t) ==
    /\ fatal' = t.stop
    /\ m_faultStatus' = IF t.fault THEN <<W(0, t.fsr), m_faultStatus[2]>>
                        ELSE m_faultStatus
    /\ m_faultAddress' = IF t.fault THEN t.addr ELSE m_faultAddress
    /\ m_pendingAbtD' = IF t.fault THEN TRUE ELSE m_pendingAbtD
    /\ m_pending_interrupt' = IF t.fault THEN TRUE ELSE m_pending_interrupt
    /\ UNCHANGED <<m_pendingIrq, m_pendingFiq, m_pendingAbtP, m_pendingUnd, m_pendingSwi>>

\* memory_translate without the test of the MMU-enable bit: the walk is always
\* made (the variant C5 is tested against)
memory_translate_always(address) ==
    /\ ~fatal
    /\ variant.at = "idle"
    /\ LET t == arm7_tlb_translate(address, 0)
       IN  /\ TranslateEffect(t)
           /\ op' = Op("memory_translate", address, 0, t.ok, t.addr)
    /\ UNCHANGED <<coreVars, cp15Vars, s_fault_table, queueVars, runVars,
                   confVars, mem, saved>>

\* memory_translate(AS_PROGRAM, intention, address)
memory_translate(address) ==
    /\ ~fatal
    /\ variant.at = "idle"
    /\ IF m_control % 2 = COPRO_CTRL_MMU_EN
       THEN LET t == arm7_tlb_translate(address, 0)
            IN  /\ TranslateEffect(t)
                /\ op' = Op("memory_translate", address, 0, t.ok, t.addr)
       ELSE /\ op' = Op("memory_translate", address, 0, TRUE, address)
            /\ UNCHANGED <<pendVars, faultVars, fatal>>
    /\ UNCHANGED <<coreVars, cp15Vars, s_fault_table, queueVars, runVars,
                   confVars, mem, saved>>

\* the four bytes of a word, least significant first, and back
BytesOf(w) == <<Lo(w) % 256, (Lo(w) \div 256) % 256,
                (Lo(w) \div 65536) + (Hi(w) % 16) * 16, Hi(w) \div 16>>
WordOf(b) == W(b[4] * 16 + (b[3] \div 16), (b[3] % 16) * 65536 + b[2] * 256 + b[1])

\* (result >> (8 * k)) | (result << (32 - (8 * k))) for k in 1..3
RotateRight8(w, k) ==
    LET b == BytesOf(w)
    IN  WordOf([i \in 1..4 |-> b[((i - 1 + k) % 4) + 1]])

\* the word the bus returns for a 32-bit read of the physical address addr
BusRead32(addr) ==
    IF Lo(addr) % 4 # 0
    THEN RotateRight8(read_dword(ClearLow(addr, 2)), Lo(addr) % 4)
    ELSE read_dword(addr)

arm7_cpu_read32(vaddr) ==
    /\ ~fatal
    /\ variant.at = "idle"
    /\ IF m_control % 2 = COPRO_CTRL_MMU_EN
       THEN LET t == arm7_tlb_translate(vaddr, ARM7_TLB_ABORT_D + ARM7_TLB_READ)
            IN  /\ TranslateEffect(t)
                /\ op' = Op("arm7_cpu_read32", vaddr, 0, t.ok,
                            IF t.ok THEN BusRead32(t.addr) ELSE W0)
       ELSE /\ op' = Op("arm7_cpu_read32", vaddr, 0, TRUE, BusRead32(vaddr))
            /\ UNCHANGED <<pendVars, faultVars, fatal>>
    /\ UNCHANGED <<coreVars, cp15Vars, s_fault_table, queueVars, runVars,
                   confVars, mem, saved>>

\* a write that stores at the untranslated address when the walk fails
arm7_cpu_write32_unchecked(vaddr, data) ==
    /\ ~fatal
    /\ variant.at = "idle"
    /\ IF m_control % 2 = COPRO_CTRL_MMU_EN
       THEN LET t == arm7_tlb_translate(vaddr, ARM7_TLB_ABORT_D + ARM7_TLB_WRITE)
            IN  /\ TranslateEffect(t)
                /\ op' = Op("arm7_cpu_write32", vaddr, 1, t.ok, t.addr)
                /\ mem' = write_dword(ClearLow(IF t.ok THEN t.addr ELSE vaddr, 2), data)
       ELSE /\ op' = Op("arm7_cpu_write32", vaddr, 1, TRUE, vaddr)
            /\ mem' = write_dword(ClearLow(vaddr, 2), data)
            /\ UNCHANGED <<pendVars, faultVars, fatal>>
    /\ UNCHANGED <<coreVars, cp15Vars, s_fault_table, queueVars, runVars,
                   confVars, saved>>

arm7_cpu_write32(vaddr, data) ==
    /\ ~fatal
    /\ variant.at = "idle"
    /\ IF m_control % 2 = COPRO_CTRL_MMU_EN
       THEN LET t == arm7_tlb_translate(vaddr, ARM7_TLB_ABORT_D + ARM7_TLB_WRITE)
            IN  /\ TranslateEffect(t)
                /\ op' = Op("arm7_cpu_write32", vaddr, 1, t.ok, t.addr)
                /\ mem' = IF t.ok THEN write_dword(ClearLow(t.addr, 2), data) ELSE mem
       ELSE /\ op' = Op("arm7_cpu_write32", vaddr, 1, TRUE, vaddr)
            /\ mem' = write_dword(ClearLow(vaddr, 2), data)
            /\ UNCHANGED <<pendVars, faultVars, fatal>>
    /\ UNCHANGED <<coreVars, cp15Vars, s_fault_table, queueVars, runVars,
                   confVars, saved>>

(***************************************************************************)
(* The ARM946ES: CP15 and the tightly coupled memories                     *)
(***************************************************************************)
\* a <= b for uint32_t
LeW(a, b) == Hi(a) < Hi(b) \/ (Hi(a) = Hi(b) /\ Lo(a) <= Lo(b))

\* the byte offsets of the backing arrays the model follows
TcmSlots == {4, 512, 4608}

\* the members the constructor leaves
arm946es_cpu_device ==
    [control |-> W(0, \H78),
     itcm_reg |-> W0, dtcm_reg |-> W0,
     itcm_base |-> WOnes, itcm_size |-> W0, itcm_end |-> W0,
     dtcm_base |-> WOnes, dtcm_size |-> W0, dtcm_end |-> W0,
     ITCM |-> [o \in TcmSlots |-> W0],
     DTCM |-> [o \in TcmSlots |-> W0]]

\* (uint32_t)(512 << ((reg & 0x3f) >> 1))
TcmSize(reg) ==
    LET n == 9 + (Lo(reg) % 64) \div 2
    IN  IF n < 20 THEN W(0, 2^n) ELSE IF n < 32 THEN W(2^(n - 20), 0) ELSE W0

\* a refresh that leaves the base of a disabled window in place
RefreshDTCM_keep_base(t) ==
    IF Bits(Lo(t.control), 16, 1) = 1
    THEN [t EXCEPT !.dtcm_base = ClearLow(t.dtcm_reg, 12),
                   !.dtcm_size = TcmSize(t.dtcm_reg),
                   !.dtcm_end = AddWW(ClearLow(t.dtcm_reg, 12), TcmSize(t.dtcm_reg))]
    ELSE [t EXCEPT !.dtcm_size = W0, !.dtcm_end = W0]

RefreshDTCM(t) ==
    IF Bits(Lo(t.control), 16, 1) = 1
    THEN [t EXCEPT !.dtcm_base = ClearLow(t.dtcm_reg, 12),
                   !.dtcm_size = TcmSize(t.dtcm_reg),
                   !.dtcm_end = AddWW(ClearLow(t.dtcm_reg, 12), TcmSize(t.dtcm_reg))]
    ELSE [t EXCEPT !.dtcm_base = WOnes, !.dtcm_size = W0, !.dtcm_end = W0]

RefreshITCM(t) ==
    IF Bits(Lo(t.control), 18, 1) = 1
    THEN [t EXCEPT !.itcm_base = W0,
                   !.itcm_size = TcmSize(t.itcm_reg),
                   !.itcm_end = AddWW(W0, TcmSize(t.itcm_reg))]
    ELSE [t EXCEPT !.itcm_base = WOnes, !.itcm_size = W0, !.itcm_end = W0]

\* arm946es_cpu_device::arm7_rt_w_callback
arm946es_rt_w_callback(cpnum, cReg, op2, op3, data) ==
    /\ ~fatal
    /\ variant.at = "idle"
    /\ tcm' = CASE cpnum = 15 /\ cReg = 1 ->
                     RefreshITCM(RefreshDTCM([tcm EXCEPT !.control = data]))
                [] cpnum = 15 /\ cReg = 9 /\ op3 = 1 /\ op2 = 0 ->
                     RefreshDTCM([tcm EXCEPT !.dtcm_reg = data])
                [] cpnum = 15 /\ cReg = 9 /\ op3 = 1 /\ op2 = 1 ->
                     RefreshITCM([tcm EXCEPT !.itcm_reg = data])
                [] OTHER -> tcm
    /\ op' = Op("arm946es_rt_w_callback", data, cReg * 16 + op2, TRUE, W0)
    /\ UNCHANGED <<coreVars, pendVars, cp15Vars, faultVars, s_fault_table, queueVars,
                   runVars, m_prefetch_enabled, m_archRev, mem, saved, fatal>>

\* the window tests of the accessors
ItcmHit(t, addr) == LeW(t.itcm_base, addr) /\ LeW(addr, t.itcm_end)
DtcmHit(t, addr) == LeW(t.dtcm_base, addr) /\ LeW(addr, t.dtcm_end)

\* the word of a backing array at the byte offset off
TcmWord(array, off) == IF off \in DOMAIN array THEN array[off] ELSE W0

\* the word the aligned address addr designates on the path the test of a
\* selects: ITCM[addr & 0x7fff], DTCM[addr & 0x3fff] or the bus
TcmPathWord(t, a, addr) ==
    IF ItcmHit(t, a) THEN TcmWord(t.ITCM, Lo(addr) % 32768)
    ELSE IF DtcmHit(t, a) THEN TcmWord(t.DTCM, Lo(addr) % 16384)
    ELSE read_dword(addr)

\* the result of arm946es_cpu_device::arm7_cpu_read32
arm946es_read32(t, addr) ==
    IF Lo(addr) % 4 # 0
    THEN RotateRight8(TcmPathWord(t, addr, ClearLow(addr, 2)), Lo(addr) % 4)
    ELSE TcmPathWord(t, addr, addr)

arm946es_cpu_read32(addr) ==
    /\ ~fatal
    /\ variant.at = "idle"
    /\ op' = Op("arm946es_cpu_read32", addr, 0, TRUE, arm946es_read32(tcm, addr))
    /\ UNCHANGED <<coreVars, pendVars, cp15Vars, faultVars, s_fault_table, queueVars,
                   runVars, confVars, mem, saved, fatal>>

\* arm946es_cpu_device::arm7_cpu_write32: addr &= ~3 comes before the tests
arm946es_cpu_write32(addr, data) ==
    /\ ~fatal
    /\ variant.at = "idle"
    /\ LET a == ClearLow(addr, 2)
           i == Lo(a) % 32768
           d == Lo(a) % 16384
       IN  /\ tcm' = IF ItcmHit(tcm, a)
                     THEN IF i \in DOMAIN tcm.ITCM
                          THEN [tcm EXCEPT !.ITCM[i] = data] ELSE tcm
                     ELSE IF DtcmHit(tcm, a)
                          THEN IF d \in DOMAIN tcm.DTCM
                               THEN [tcm EXCEPT !.DTCM[d] = data] ELSE tcm
                          ELSE tcm
           /\ mem' = IF ItcmHit(tcm, a) \/ DtcmHit(tcm, a) THEN mem
                     ELSE write_dword(a, data)
    /\ op' = Op("arm946es_cpu_write32", addr, 1, TRUE, data)
    /\ UNCHANGED <<coreVars, pendVars, cp15Vars, faultVars, s_fault_table, queueVars,
                   runVars, m_prefetch_enabled, m_archRev, saved, fatal>>

(***************************************************************************)
(* The instruction prefetch queue                                          *)
(***************************************************************************)
\* the queue as one value
Queue == [count |-> m_insn_prefetch_count,
          index |-> m_insn_prefetch_index,
          buffer |-> m_insn_prefetch_buffer,
          address |-> m_insn_prefetch_address,
          translated |-> m_insn_prefetch_translated,
          stop |-> FALSE]

\* a >= c for uint32_t operands, a small and c an integer standing for c mod 2^32
GeU(a, c) == IF c < 0 THEN FALSE ELSE a >= c

\* (x mod 2^32) % d for an integer x above -2^31
ModU32(x, d) ==
    IF x < 0 THEN ((x % d) + ((65536 % d) * (65536 % d))) % d ELSE x % d

\* a slot index inside the three-entry arrays
InRing(i) == i \in 0..2

\* if (address[index] != curr_pc) { count = 0; index = 0; }
QueueCheckHead(q, curr_pc) ==
    IF q.address[q.index] # curr_pc
    THEN [q EXCEPT !.count = 0, !.index = 0]
    ELSE q

\* a fill whose failing check leaves the slot as it was
RECURSIVE FillMmu_unmarked(_, _, _, _, _)
FillMmu_unmarked(q, index, pc, i, to_fetch) ==
    IF i >= to_fetch
    THEN [q EXCEPT !.count = @ + i]
    ELSE LET t == arm7_tlb_translate_check(pc)
         IN  IF t.stop
             THEN [q EXCEPT !.stop = TRUE]
             ELSE IF ~t.ok
             THEN [q EXCEPT !.count = @ + i]
             ELSE FillMmu_unmarked([q EXCEPT !.buffer[index] = read_dword(t.addr),
                                             !.address[index] = pc,
                                             !.translated[index] = t.addr],
                                   IF index + 1 >= m_insn_prefetch_depth
                                   THEN index + 1 - m_insn_prefetch_depth
                                   ELSE index + 1,
                                   AddW(pc, 4), i + 1, to_fetch)

\* the loop of update_insn_prefetch_mmu from its iteration i on; the value is
\* the queue with count raised by the number of words fetched (stop: the check
\* ended in fatalerror)
RECURSIVE FillMmu(_, _, _, _, _)
FillMmu(q, index, pc, i, to_fetch) ==
    IF i >= to_fetch
    THEN [q EXCEPT !.count = @ + i]
    ELSE LET t == arm7_tlb_translate_check(pc)
         IN  IF t.stop
             THEN [q EXCEPT !.stop = TRUE]
             ELSE IF ~t.ok
             THEN [q EXCEPT !.translated[index] = WOnes, !.count = @ + i]
             ELSE FillMmu([q EXCEPT !.buffer[index] = read_dword(t.addr),
                                    !.address[index] = pc,
                                    !.translated[index] = t.addr],
                          IF index + 1 >= m_insn_prefetch_depth
                          THEN index + 1 - m_insn_prefetch_depth
                          ELSE index + 1,
                          AddW(pc, 4), i + 1, to_fetch)

\* the first slot update_insn_prefetch_mmu fills
StartIndexMmu(q) ==
    LET to_fetch == m_insn_prefetch_depth - q.count
        index == m_insn_prefetch_depth + (q.index - to_fetch)
    IN  IF index < 0 \/ index >= m_insn_prefetch_depth
        THEN index - m_insn_prefetch_depth
        ELSE index

update_insn_prefetch_mmu(q0, curr_pc) ==
    LET q == QueueCheckHead(q0, curr_pc)
        to_fetch == m_insn_prefetch_depth - q.count
    IN  IF q.count = m_insn_prefetch_depth \/ to_fetch = 0
        THEN q
        ELSE FillMmu(q, StartIndexMmu(q), AddW(curr_pc, q.count * 4), 0, to_fetch)

\* the loop of update_insn_prefetch from its iteration i on
RECURSIVE FillPlain(_, _, _, _, _)
FillPlain(q, start_index, pc, i, to_fetch) ==
    IF i >= to_fetch
    THEN [q EXCEPT !.count = @ + i]
    ELSE LET index == (i + start_index) % m_insn_prefetch_depth
         IN  FillPlain([q EXCEPT !.buffer[index] = read_dword(pc),
                                 !.address[index] = pc,
                                 !.translated[index] = pc],
                       start_index, AddW(pc, 4), i + 1, to_fetch)

update_insn_prefetch(q0, curr_pc) ==
    LET q == QueueCheckHead(q0, curr_pc)
        to_fetch == m_insn_prefetch_depth - q.count
        start_index == ModU32(m_insn_prefetch_depth + (q.index - to_fetch),
                              m_insn_prefetch_depth)
    IN  IF q.count = m_insn_prefetch_depth
        THEN q
        ELSE FillPlain(q, start_index, AddW(curr_pc, q.count * 4), 0, to_fetch)

\* insn_fetch_arm: the word fetched, whether its slot was translated, and the
\* queue left
insn_fetch_arm(q) ==
    LET index == q.index + 1
    IN  [translated |-> Lo(q.translated[q.index]) % 2 = 0,
         insn |-> q.buffer[q.index],
         queue |-> [q EXCEPT !.index = IF GeU(index, q.count)
                                       THEN index - q.count
                                       ELSE index,
                             !.count = @ - 1]]

(***************************************************************************)
(* The execute loop                                                        *)
(***************************************************************************)
\* no execute_core running: the core is between two time slices
NoVariant == [thumb |-> FALSE, mmu |-> FALSE, prefetch |-> FALSE, at |-> "idle"]

\* the execute_core instance execute_run selects, at the top of its loop
SelectVariant(cpsr, control) ==
    [thumb |-> FlagSet(cpsr, T_BIT),
     mmu |-> control % 2 = COPRO_CTRL_MMU_EN,
     prefetch |-> m_prefetch_enabled,
     at |-> "irq"]

\* the scheduler stores the cycles of the slice in the counter and calls
\* execute_run
execute_run(cycles) ==
    /\ ~fatal
    /\ variant.at = "idle"
    /\ m_icount' = cycles
    /\ variant' = SelectVariant(m_r["CPSR"], m_control)
    /\ op' = Op("execute_run", W0, cycles, TRUE, W0)
    /\ UNCHANGED <<coreVars, pendVars, cp15Vars, faultVars, s_fault_table,
                   queueVars, m_insn, m_mode_changed, confVars, mem, saved, fatal>>

\* w with bit b (below 20) cleared
ClearBit(w, b) == IF Bits(Lo(w), b, 1) = 1 THEN W(Hi(w), Lo(w) - 2^b) ELSE w

\* the exception arm7_check_irq_state services: the highest-priority pending
\* one that the CPSR does not mask
PendingException ==
    CASE ~m_pending_interrupt -> "none"
      [] m_pendingAbtD -> "AbtD"
      [] m_pendingFiq /\ ~FlagSet(m_r["CPSR"], F_BIT) -> "Fiq"
      [] m_pendingIrq /\ ~FlagSet(m_r["CPSR"], I_BIT) -> "Irq"
      [] m_pendingAbtP -> "AbtP"
      [] m_pendingUnd -> "Und"
      [] m_pendingSwi -> "Swi"
      [] OTHER -> "none"

\* target mode, vector offset and saved-PC offset of an exception
ExceptionMode(e) ==
    CASE e = "AbtD" -> eARM7_MODE_ABT
      [] e = "Fiq" -> eARM7_MODE_FIQ
      [] e = "Irq" -> eARM7_MODE_IRQ
      [] e = "AbtP" -> eARM7_MODE_ABT
      [] e = "Und" -> eARM7_MODE_UND
      [] e = "Swi" -> eARM7_MODE_SVC
ExceptionVector(e) ==
    CASE e = "AbtD" -> 16
      [] e = "Fiq" -> 28
      [] e = "Irq" -> 24
      [] e = "AbtP" -> 12
      [] e = "Und" -> 4
      [] e = "Swi" -> 8
ExceptionReturn(e, thumb) ==
    CASE e = "AbtD" -> 8
      [] e \in {"Und", "Swi"} /\ thumb -> 2
      [] OTHER -> 4

\* the core state (registers, cached mode, view) after the entry to exception e
ExceptionEntry(e) ==
    LET cpsr == m_r["CPSR"]
        sm == SwitchMode(cpsr, ExceptionMode(e), m_mode, m_reg_group)
        masked == IF e = "Fiq"
                  THEN SetBit(SetBit(sm.cpsr, I_BIT), F_BIT)
                  ELSE SetBit(sm.cpsr, I_BIT)
        sc == set_cpsr(ClearBit(masked, T_BIT), sm.mode, sm.group)
    IN  [r |-> [m_r EXCEPT ![LinkSlot(sm.group)] =
                               AddW(m_r["R15"], ExceptionReturn(e, FlagSet(cpsr, T_BIT))),
                           ![SpsrSlot(sm.group)] = cpsr,
                           !["CPSR"] = sc.cpsr,
                           !["R15"] = AddW(m_vectorbase, ExceptionVector(e))],
         mode |-> sc.mode,
         group |-> sc.group]

\* arm7_check_irq_state at the top of an iteration of execute_core
arm7_check_irq_state ==
    /\ ~fatal
    /\ variant.at = "irq"
    /\ LET e == PendingException
       IN  /\ op' = Op("arm7_check_irq_state", m_r["R15"], 0, e # "none", W0)
           /\ IF e = "none"
              THEN UNCHANGED <<coreVars, pendVars>>
              ELSE /\ m_r' = ExceptionEntry(e).r
                   /\ m_mode' = ExceptionEntry(e).mode
                   /\ m_reg_group' = ExceptionEntry(e).group
                   /\ m_pendingAbtD' = IF e = "AbtD" THEN FALSE ELSE m_pendingAbtD
                   /\ m_pendingFiq' = IF e = "Fiq" THEN FALSE ELSE m_pendingFiq
                   /\ m_pendingIrq' = IF e = "Irq" THEN FALSE ELSE m_pendingIrq
                   /\ m_pendingAbtP' = IF e = "AbtP" THEN FALSE ELSE m_pendingAbtP
                   /\ m_pendingUnd' = IF e = "Und" THEN FALSE ELSE m_pendingUnd
                   /\ m_pendingSwi' = IF e = "Swi" THEN FALSE ELSE m_pendingSwi
                   /\ m_pending_interrupt' =
                          update_irq_state(m_pendingIrq', m_pendingFiq', m_pendingAbtD',
                                           m_pendingAbtP', m_pendingUnd', m_pendingSwi')
    /\ variant' = [variant EXCEPT !.at = "fetch"]
    /\ UNCHANGED <<cp15Vars, faultVars, s_fault_table, queueVars, m_insn, m_icount,
                   m_mode_changed, confVars, mem, saved, fatal>>

\* the end of an iteration: while (m_icount >= 0 && !m_mode_changed), then
\* m_mode_changed = false and, with cycles left, execute_run() again
LoopEnd(icount, mode_changed, cpsr, control) ==
    IF icount >= 0 /\ ~mode_changed
    THEN [variant EXCEPT !.at = "irq"]
    ELSE IF icount >= 0
         THEN SelectVariant(cpsr, control)
         ELSE NoVariant

\* the result of the on-demand fetch of the word at raddr (PREFETCH_OFF)
FetchOnDemand(mmu, raddr) ==
    IF mmu
    THEN LET t == arm7_tlb_translate_check(raddr)
         IN  [translated |-> t.ok, stop |-> t.stop,
              insn |-> IF t.ok THEN read_dword(t.addr) ELSE m_insn]
    ELSE [translated |-> TRUE, stop |-> FALSE, insn |-> read_dword(raddr)]

\* the queue after update_insn_prefetch_mmu or update_insn_prefetch of raddr
QueueUpdated(mmu, raddr) ==
    IF mmu THEN update_insn_prefetch_mmu(Queue, raddr)
    ELSE update_insn_prefetch(Queue, raddr)

\* the result of the fetch through the queue (PREFETCH_ON)
FetchQueued(mmu, raddr) == insn_fetch_arm(QueueUpdated(mmu, raddr))

\* the fetch of an iteration of execute_core<ARM_MODE, ., .>: through the queue
\* or on demand; a word that did not translate raises the prefetch abort and
\* ends the iteration
FetchInsn ==
    /\ ~fatal
    /\ variant.at = "fetch"
    /\ ~variant.thumb
    /\ LET raddr == ClearLow(m_r["R15"], 2)
           q == FetchQueued(variant.mmu, raddr)
           d == FetchOnDemand(variant.mmu, raddr)
           translated == IF variant.prefetch THEN q.translated ELSE d.translated
           stop == IF variant.prefetch THEN q.queue.stop ELSE d.stop
       IN  /\ fatal' = stop
           /\ m_insn' = IF variant.prefetch THEN q.insn ELSE d.insn
           /\ IF variant.prefetch
              THEN /\ m_insn_prefetch_count' = q.queue.count
                   /\ m_insn_prefetch_index' = q.queue.index
                   /\ m_insn_prefetch_buffer' = q.queue.buffer
                   /\ m_insn_prefetch_address' = q.queue.address
                   /\ m_insn_prefetch_translated' = q.queue.translated
                   /\ UNCHANGED m_insn_prefetch_depth
              ELSE UNCHANGED queueVars
           /\ m_pendingAbtP' = IF translated \/ stop THEN m_pendingAbtP ELSE TRUE
           /\ m_pending_interrupt' =
                  IF translated \/ stop THEN m_pending_interrupt ELSE TRUE
           /\ variant' = IF stop THEN variant
                         ELSE IF translated THEN [variant EXCEPT !.at = "exec"]
                         ELSE LoopEnd(m_icount, m_mode_changed, m_r["CPSR"], m_control)
           /\ m_mode_changed' = IF translated \/ stop THEN m_mode_changed ELSE FALSE
           /\ op' = Op("fetch", raddr, 0, translated, m_insn')
    /\ UNCHANGED <<coreVars, m_pendingIrq, m_pendingFiq, m_pendingAbtD, m_pendingUnd,
                   m_pendingSwi, cp15Vars, faultVars, s_fault_table, m_icount,
                   confVars, mem, saved>>

\* a condition test whose GT and LE leave the Z flag out
Unexecuted_no_zero(cond, cpsr) ==
    LET n == BitsW(cpsr, N_BIT, 1) = 1
        z == BitsW(cpsr, Z_BIT, 1) = 1
        c == BitsW(cpsr, C_BIT, 1) = 1
        v == BitsW(cpsr, V_BIT, 1) = 1
    IN  CASE cond \in {COND_EQ, COND_NE} -> (z = (cond = COND_NE))
          [] cond \in {COND_CS, COND_CC} -> (c = (cond = COND_CC))
          [] cond \in {COND_MI, COND_PL} -> (n = (cond = COND_PL))
          [] cond \in {COND_VS, COND_VC} -> (v = (cond = COND_VC))
          [] cond \in {COND_HI, COND_LS} -> ((~c \/ z) = (cond = COND_HI))
          [] cond \in {COND_GE, COND_LT} -> ((n # v) = (cond = COND_GE))
          [] cond \in {COND_GT, COND_LE} -> ((n # v) = (cond = COND_GT))
          [] cond = COND_NV -> m_archRev < 5
          [] cond = COND_AL -> FALSE

\* the condition test of execute_core: TRUE when the instruction is skipped
\* through UNEXECUTED
Unexecuted(cond, cpsr) ==
    LET n == FlagSet(cpsr, N_BIT)
        z == FlagSet(cpsr, Z_BIT)
        c == FlagSet(cpsr, C_BIT)
        v == FlagSet(cpsr, V_BIT)
    IN  CASE cond = COND_EQ -> ~z
          [] cond = COND_NE -> z
          [] cond = COND_CS -> ~c
          [] cond = COND_CC -> c
          [] cond = COND_MI -> ~n
          [] cond = COND_PL -> n
          [] cond = COND_VS -> ~v
          [] cond = COND_VC -> v
          [] cond = COND_HI -> ~c \/ z
          [] cond = COND_LS -> ~(~c \/ z)
          [] cond = COND_GE -> n # v
          [] cond = COND_LT -> ~(n # v)
          [] cond = COND_GT -> z \/ (n # v)
          [] cond = COND_LE -> ~(z \/ (n # v))
          [] cond = COND_NV -> m_archRev < 5
          [] cond = COND_AL -> FALSE

\* UNEXECUTED(): R15 += 4; m_icount += 2
UNEXECUTED(c) == [c EXCEPT !.r["R15"] = AddW(@, 4), !.icount = @ + 2]

(***************************************************************************)
(* Instruction handlers (the subset the programs below use)                *)
(***************************************************************************)
\* the cycles a handler takes from the counter
InsnCycles == 3

\* bits 27..20 of the instruction: the index of the dispatch switch
OpOffset(insn) == Hi(insn) % 256

\* r0..r7 are the same slot in every view
LowRegs == <<"R0", "R1", "R2", "R3", "R4", "R5", "R6", "R7">>
GetRegister(c, n) == c.r[LowRegs[n + 1]]

\* MOV r0, r0 with any condition: the data-processing form with no effect
IsMovR0R0(insn) == Hi(insn) % 256 = 26 /\ Lo(insn) = 0

\* arm7ops_1 for MOV r0, r0
arm7ops_1(c, insn) ==
    [c EXCEPT !.r["R15"] = AddW(@, 4), !.icount = @ - InsnCycles]

\* MSR CPSR_<fields>, #imm8 ror 2*rot with the f and c fields and rot 0 or 4
IsMsrImm(insn) ==
    /\ OpOffset(insn) = 50
    /\ Bits(Lo(insn), 12, 4) = 15
    /\ Bits(Lo(insn), 16, 4) \in {1, 8, 9}
    /\ Bits(Lo(insn), 8, 4) \in {0, 4}

\* the CPSR an MSR immediate writes over the value cpsr
MsrValue(cpsr, insn) ==
    LET imm8 == Bits(Lo(insn), 0, 8)
        rot == Bits(Lo(insn), 8, 4)
        val == IF rot = 0 THEN W(0, imm8) ELSE W(imm8 * 16, 0)
        f == Bits(Lo(insn), 19, 1) = 1
        cf == Bits(Lo(insn), 16, 1) = 1
    IN  W(IF f THEN (Hi(val) \div 16) * 16 + (Hi(cpsr) % 16) ELSE Hi(cpsr),
          IF cf THEN (Lo(cpsr) \div 256) * 256 + (Lo(val) % 256) ELSE Lo(cpsr))

\* arm7ops_3 for MSR CPSR, #imm: set_cpsr of the new value; user mode cannot
\* write the control field
arm7ops_3(c, insn) ==
    LET cpsr == c.r["CPSR"]
        val == MsrValue(cpsr, insn)
        new == IF c.mode = eARM7_MODE_USER THEN W(Hi(val), Lo(cpsr)) ELSE val
        sc == set_cpsr(new, c.mode, c.group)
    IN  [c EXCEPT !.r["CPSR"] = sc.cpsr, !.mode = sc.mode, !.group = sc.group,
                  !.r["R15"] = AddW(@, 4), !.icount = @ - InsnCycles]

\* the byte offset of a branch: the signed 24-bit field times 4
BranchOffset(insn) ==
    LET imm24 == (Hi(insn) % 16) * LoMod + Lo(insn)
    IN  (IF imm24 >= 2^23 THEN imm24 - 2^24 ELSE imm24) * 4

IsBranch(insn) == OpOffset(insn) \in 160..175

\* HandleBranch for B: the write of R15 flushes the prefetch queue
HandleBranch(c, insn) ==
    [c EXCEPT !.r["R15"] = AddW(@, 8 + BranchOffset(insn)),
              !.count = 0, !.index = 0,
              !.icount = @ - InsnCycles]

\* MCR p<cpnum>, 0, r<Rd>, c<CRn>, c<CRm> with Rd among r0..r7
IsMcr(insn) ==
    /\ OpOffset(insn) \in 224..239
    /\ OpOffset(insn) % 2 = 0
    /\ Bits(Lo(insn), 4, 1) = 1
    /\ Bits(Lo(insn), 12, 4) < 8

\* arm7ops_e for MCR: the register goes to arm7_rt_w_callback
arm7ops_e(c, insn) ==
    LET w == arm7_rt_w_callback(c, Bits(Lo(insn), 8, 4), Bits(Lo(insn), 16, 4),
                                Bits(Lo(insn), 0, 4),
                                GetRegister(c, Bits(Lo(insn), 12, 4)))
    IN  [w EXCEPT !.r["R15"] = AddW(@, 4), !.icount = @ - InsnCycles]

\* the instructions with a handler in this model
Modelled(insn) == IsMovR0R0(insn) \/ IsMsrImm(insn) \/ IsBranch(insn) \/ IsMcr(insn)

\* the switch on op_offset
Dispatch(c, insn) ==
    CASE OpOffset(insn) \in {26, 30} -> arm7ops_1(c, insn)
      [] OpOffset(insn) \in {48, 50, 52, 54} -> arm7ops_3(c, insn)
      [] OpOffset(insn) \in 160..191 -> HandleBranch(c, insn)
      [] OpOffset(insn) \in 224..239 -> arm7ops_e(c, insn)

\* the cycle counter above which the model stops following a slice
MaxIcount == 8

\* the rest of an iteration of execute_core after a successful fetch: the
\* condition test, the dispatch, and the end of the loop
ExecuteInsn ==
    /\ ~fatal
    /\ variant.at = "exec"
    /\ m_icount <= MaxIcount
    /\ LET cond == Hi(m_insn) \div 256
           skip == cond # COND_AL /\ Unexecuted(cond, m_r["CPSR"])
           c == IF skip THEN UNEXECUTED(Core) ELSE Dispatch(Core, m_insn)
       IN  /\ skip \/ (Modelled(m_insn) /\ cond # COND_NV)
           /\ Commit(c)
           /\ m_icount' = c.icount
           /\ variant' = LoopEnd(c.icount, c.mode_changed, c.r["CPSR"], c.control)
           /\ m_mode_changed' = FALSE
           /\ op' = Op("execute", m_r["R15"], cond, ~skip, m_insn)
    /\ UNCHANGED <<s_fault_table, m_insn_prefetch_depth, m_insn_prefetch_buffer,
                   m_insn_prefetch_address, m_insn_prefetch_translated, m_insn,
                   confVars, mem, saved, fatal>>

(***************************************************************************)
(* The Thumb iteration of the execute loop                                 *)
(***************************************************************************)
\* the halfword of word w that the Thumb fetch takes for pc: the upper half
\* when pc & 2 (little-endian shifts 16 and 0)
HalfOf(w, pc) ==
    IF Bits(Lo(pc), 1, 1) = 1
    THEN W(0, Hi(w) * 16 + Lo(w) \div 65536)
    ELSE W(0, Lo(w) % 65536)

\* insn_fetch_thumb: the halfword fetched, whether its slot was translated,
\* and the queue left; the head is consumed with the upper halfword only, and
\* the wrap of the head divides by the count
insn_fetch_thumb(q, pc) ==
    [translated |-> Lo(q.translated[q.index]) % 2 = 0,
     insn |-> HalfOf(q.buffer[q.index], pc),
     queue |-> IF Bits(Lo(pc), 1, 1) = 0 THEN q
               ELSE IF q.count = 0 THEN [q EXCEPT !.stop = TRUE]
               ELSE [q EXCEPT !.index = (q.index + 1) % q.count,
                              !.count = @ - 1]]

\* the on-demand Thumb fetch (PREFETCH_OFF): the check and the read use the
\* word address, the halfword is selected by pc & 2
ThumbOnDemand(mmu, raddr) ==
    LET d == FetchOnDemand(mmu, ClearLow(raddr, 2))
    IN  [d EXCEPT !.insn = IF d.translated THEN HalfOf(@, raddr) ELSE @]

\* the fetch of an iteration of execute_core<THUMB_MODE, ., .>; without the
\* MMU the queued fetch ignores the translated flag
FetchThumb ==
    /\ ~fatal
    /\ variant.at = "fetch"
    /\ variant.thumb
    /\ LET raddr == ClearLow(m_r["R15"], 1)
           q == insn_fetch_thumb(QueueUpdated(variant.mmu, ClearLow(raddr, 2)), raddr)
           d == ThumbOnDemand(variant.mmu, raddr)
           translated == IF variant.prefetch
                         THEN q.translated \/ ~variant.mmu
                         ELSE d.translated
           stop == IF variant.prefetch THEN q.queue.stop ELSE d.stop
       IN  /\ fatal' = stop
           /\ m_insn' = IF variant.prefetch THEN q.insn ELSE d.insn
           /\ IF variant.prefetch
              THEN /\ m_insn_prefetch_count' = q.queue.count
                   /\ m_insn_prefetch_index' = q.queue.index
                   /\ m_insn_prefetch_buffer' = q.queue.buffer
                   /\ m_insn_prefetch_address' = q.queue.address
                   /\ m_insn_prefetch_translated' = q.queue.translated
                   /\ UNCHANGED m_insn_prefetch_depth
              ELSE UNCHANGED queueVars
           /\ m_pendingAbtP' = IF translated \/ stop THEN m_pendingAbtP ELSE TRUE
           /\ m_pending_interrupt' =
                  IF translated \/ stop THEN m_pending_interrupt ELSE TRUE
           /\ variant' = IF stop THEN variant
                         ELSE IF translated THEN [variant EXCEPT !.at = "thumb"]
                         ELSE LoopEnd(m_icount, m_mode_changed, m_r["CPSR"], m_control)
           /\ m_mode_changed' = IF translated \/ stop THEN m_mode_changed ELSE FALSE
           /\ op' = Op("fetch", raddr, 1, translated, m_insn')
    /\ UNCHANGED <<coreVars, m_pendingIrq, m_pendingFiq, m_pendingAbtD, m_pendingUnd,
                   m_pendingSwi, cp15Vars, faultVars, s_fault_table, m_icount,
                   confVars, mem, saved>>

\* MOV r8, r8, the Thumb instruction with no effect
ThumbNop == W(0, \H46C0)

\* the Thumb handler of MOV r8, r8 and the end of the loop
ExecuteThumb ==
    /\ ~fatal
    /\ variant.at = "thumb"
    /\ m_insn = ThumbNop
    /\ m_r' = [m_r EXCEPT !["R15"] = AddW(@, 2)]
    /\ m_icount' = m_icount - InsnCycles
    /\ variant' = LoopEnd(m_icount', m_mode_changed, m_r["CPSR"], m_control)
    /\ m_mode_changed' = FALSE
    /\ op' = Op("execute", m_r["R15"], COND_AL, TRUE, m_insn)
    /\ UNCHANGED <<m_mode, m_reg_group, pendVars, cp15Vars, faultVars, s_fault_table,
                   queueVars, m_insn, confVars, mem, saved, fatal>>

(***************************************************************************)
(* The memory image: page tables, vectors and a three-word program         *)
(***************************************************************************)
\* the first-level table is at 0x4000, a coarse table at 0x8000 and a fine
\* table at 0x9000
TableBase == W(0, \H4000)
L1Slot(section) == W(0, \H4000 + 4 * section)
CoarseSlot(i) == W(0, \H8000 + 4 * i)
FineSlot(i) == W(0, \H9000 + 4 * i)

SectionDesc(base, domain, ap) == W(base, ap * 1024 + domain * 32 + 16 + 2)
CoarseDesc(domain) == W(0, \H8000 + domain * 32 + 16 + 1)
FineDesc(domain) == W(0, \H9000 + domain * 32 + 16 + 3)
\* a small page at base * 2^20 + page * 2^12 with the access permissions of
\* its four subpages
SmallDesc(base, page, ap3, ap2, ap1, ap0) ==
    W(base, page * 4096 + (ap3 * 64 + ap2 * 16 + ap1 * 4 + ap0) * 16 + 2)
LargeDesc(base, page) == W(base, page * 65536 + 1)
TinyDesc(base, page) == W(base, page * 1024 + 3)

PageTables ==
    (L1Slot(\H000) :> SectionDesc(\H000, 0, 3)) @@
    (L1Slot(\H001) :> SectionDesc(\H005, 0, 0)) @@
    (L1Slot(\H002) :> SectionDesc(\H006, 1, 0)) @@
    (L1Slot(\H003) :> SectionDesc(\H007, 2, 3)) @@
    (L1Slot(\H004) :> SectionDesc(\H008, 3, 1)) @@
    (L1Slot(\H005) :> SectionDesc(\H005, 0, 2)) @@
    (L1Slot(\H006) :> W0) @@
    (L1Slot(\H010) :> CoarseDesc(0)) @@
    (L1Slot(\H011) :> FineDesc(0)) @@
    (L1Slot(\H012) :> CoarseDesc(2)) @@
    (L1Slot(\H013) :> CoarseDesc(3)) @@
    (L1Slot(\H020) :> W(0, \H1E0)) @@
    (L1Slot(\H021) :> SectionDesc(\H00A, 0, 3)) @@
    (L1Slot(\HC00) :> W0) @@
    (CoarseSlot(0) :> W0) @@
    (CoarseSlot(1) :> SmallDesc(\H00B, 1, 2, 1, 0, 3)) @@
    (CoarseSlot(2) :> LargeDesc(\H00C, 2)) @@
    (CoarseSlot(3) :> TinyDesc(\H00D, 13)) @@
    (FineSlot(0) :> TinyDesc(\H00E, 1)) @@
    (FineSlot(1) :> W0) @@
    (FineSlot(2) :> SmallDesc(\H00E, 2, 3, 3, 3, 3))

\* domain 0 client, domain 1 manager, domain 2 no access, domain 3 client
BootDacr == W(0, \H4D)

\* instruction words
BranchSelf == W(\HEAF, \HFFFFE)
Nop == W(\HE1A, 0)
NopCond(cond) == W(cond * 256 + \H1A, 0)
MsrFlags(imm8) == W(\HE32, \H8F400 + imm8)
MsrControl(imm8) == W(\HE32, \H1F000 + imm8)
McrDacr == W(\HEE0, \H30F10)
McrControl == W(\HEE0, \H10F10)
\* B from the word at byte offset from of the program to its first word
BranchBack(from) == W(\HEAF, \HFFFFE - (from \div 4))

\* the program is at 0x005FFFF4, the last three words of a section the table
\* maps onto itself; the next section is not mapped
ProgramBase == W(\H005, \HFFFF4)

\* the reset vector branches to the program, the other vectors to themselves
Vectors ==
    (W(0, 0) :> W(\HEA1, \H7FFFB)) @@
    [a \in {W(0, 4 * i) : i \in 1..7} |-> BranchSelf]

ProgramImage(prog) ==
    (ProgramBase :> prog[1]) @@
    (AddW(ProgramBase, 4) :> prog[2]) @@
    (AddW(ProgramBase, 8) :> prog[3]) @@
    (AddW(ProgramBase, 12) :> BranchBack(12))

\* words for data accesses
DataImage == [a \in {W(\H001, 4), W(\H00A, 4)} |-> W(\H123, \H45678)]

MemoryImage(prog) == PageTables @@ Vectors @@ ProgramImage(prog) @@ DataImage

(***************************************************************************)
(* The start state                                                         *)
(***************************************************************************)
\* the state device_start and device_reset leave, for a core configured with
\* or without the prefetch queue and a bus holding the image of prog, after a
\* boot sequence wrote control, ttb and dacr to CP15 registers 1, 2 and 3
\* (control 0, ttb 0 and dacr 0 are the reset values: no boot sequence);
\* archRev is the architecture revision of the device type
StartRev(archRev, regs, prog, prefetch, control, ttb, dacr) ==
    /\ m_r = regs
    /\ m_mode = ResetMode(eARM7_MODE_USER, NoGroup).mode
    /\ m_reg_group = ResetMode(eARM7_MODE_USER, NoGroup).group
    /\ m_pendingIrq = FALSE
    /\ m_pendingFiq = FALSE
    /\ m_pendingAbtD = FALSE
    /\ m_pendingAbtP = FALSE
    /\ m_pendingUnd = FALSE
    /\ m_pendingSwi = FALSE
    /\ m_pending_interrupt = FALSE
    /\ m_control = control
    /\ m_tlbBase = ttb
    /\ m_tlb_base_mask = ClearLow(ttb, 14)
    /\ m_tlb_base = ClearLow(ttb, 14)
    /\ m_faultStatus = <<W0, W0>>
    /\ m_faultAddress = W0
    /\ m_fcsePID = W0
    /\ m_pid_offset = W0
    /\ m_domainAccessControl = dacr
    /\ m_decoded_access_control = DecodeAccessControl(dacr)
    /\ s_fault_table = update_fault_table(0)
    /\ m_insn_prefetch_depth = 3
    /\ m_insn_prefetch_count = 0
    /\ m_insn_prefetch_index = 0
    /\ m_insn_prefetch_buffer = ZeroSlots
    /\ m_insn_prefetch_address = ZeroSlots
    /\ m_insn_prefetch_translated = ZeroSlots
    /\ m_insn = W0
    /\ m_icount = 0
    /\ m_mode_changed = FALSE
    /\ m_prefetch_enabled = prefetch
    /\ m_archRev = archRev
    /\ tcm = arm946es_cpu_device
    /\ variant = NoVariant
    /\ mem = MemoryImage(prog)
    /\ saved = NoSave
    /\ fatal = FALSE
    /\ op = Op("device_reset", W0, 0, TRUE, W0)

\* the ARM7 core: revision 4
StartAt(regs, prog, prefetch, control, ttb, dacr) ==
    StartRev(4, regs, prog, prefetch, control, ttb, dacr)

Start(prog, prefetch, control, ttb, dacr) ==
    StartAt(ResetRegs(eARM7_MODE_USER, NoGroup), prog, prefetch, control, ttb, dacr)

\* the register file once the boot code has branched to the program and
\* exchanged to Thumb state
ThumbRegs ==
    [ResetRegs(eARM7_MODE_USER, NoGroup) EXCEPT !["CPSR"] = SetBit(@, T_BIT),
                                                !["R15"] = ProgramBase]

\* the cycles the scheduler gives a slice
MaxCycles == 4

(***************************************************************************)
(* Specification of the execute loop: every program of Programs, with and  *)
(* without the prefetch queue, with the MMU off or on                      *)
(***************************************************************************)
\* NZCV patterns an MSR of the program writes (the top nibble of imm8)
FlagPatterns == {\H00, \H40, \H20, \H80, \H10, \H60, \H90}

Programs ==
    {<<MsrFlags(f), NopCond(cond), BranchBack(8)>> :
        f \in FlagPatterns, cond \in COND_EQ..COND_NV}
    \cup {<<Nop, Nop, Nop>>,
          <<Nop, BranchBack(4), Nop>>,
          <<NopCond(COND_EQ), NopCond(COND_EQ), NopCond(COND_EQ)>>,
          <<McrDacr, Nop, Nop>>,
          <<McrControl, Nop, BranchBack(8)>>,
          <<MsrControl(\H10), Nop, BranchBack(8)>>}

InitExec ==
    \E prog \in Programs, prefetch \in BOOLEAN, control \in {0, COPRO_CTRL_MMU_EN} :
        Start(prog, prefetch, control, TableBase, BootDacr)

NextExec ==
    \/ \E cycles \in 1..MaxCycles : execute_run(cycles)
    \/ arm7_check_irq_state
    \/ FetchInsn
    \/ ExecuteInsn

SpecExec == InitExec /\ [][NextExec]_vars

(***************************************************************************)
(* Specification of the MMU: coprocessor writes, mode changes, translations *)
(* and data accesses from the reset state                                  *)
(***************************************************************************)
\* writes to CP15: control (MMU off, on, and on with the S bit), the table
\* base, the domain access control and the FCSE PID (0 and 1)
CoproWrites ==
    {<<1, W(0, 0)>>, <<1, W(0, \H001)>>, <<1, W(0, \H101)>>,
     <<2, TableBase>>, <<3, BootDacr>>, <<13, W(\H020, 0)>>}

\* virtual addresses: sections of each access permission and domain setting,
\* coarse tables with an unmapped and a small page, and unmapped sections
TestAddrs ==
    {W(\H000, \H00123), W(\H001, 4), W(\H003, 0), W(\H004, 0),
     W(\H010, 0), W(\H010, \H01004), W(\H010, \H01404), W(\H010, \H02ABC),
     W(\H011, 4), W(\H012, 0), W(\H013, 0), W(\HC00, 0)}

\* the address of the data accesses
AccessAddrs == {W(\H001, 5)}

\* the word the data writes store
WriteData == W(0, \HBEEF)

InitMMU == Start(<<Nop, Nop, Nop>>, FALSE, 0, W0, W0)

NextMMU ==
    \/ \E w \in CoproWrites : CoproWrite(15, w[1], 0, w[2])
    \/ \E vaddr \in TestAddrs : memory_translate(vaddr)
    \/ \E vaddr \in AccessAddrs : arm7_cpu_read32(vaddr)
    \/ \E vaddr \in AccessAddrs : arm7_cpu_write32(vaddr, WriteData)
    \/ device_reset

SpecMMU == InitMMU /\ [][NextMMU]_vars

(***************************************************************************)
(* Specification of the pending flags: interrupt lines, coprocessor        *)
(* callbacks, data accesses, resets and the execute loop                   *)
(***************************************************************************)
\* coprocessor writes: MMU on (every domain is still "no access", so each
\* translation faults) and a write to the absent coprocessor 1
IrqCoproWrites == {<<15, 1, W(0, \H001)>>, <<1, 1, W0>>}

\* the input lines driven from outside
IrqLines == {ARM7_IRQ_LINE, ARM7_FIRQ_LINE, ARM7_ABORT_EXCEPTION}

InitIrq ==
    \E prefetch \in BOOLEAN : Start(<<Nop, Nop, Nop>>, prefetch, 0, TableBase, W0)

NextIrq ==
    \/ \E irqline \in IrqLines, state \in {0, 1} :
          execute_set_input(irqline, state)
    \/ arm7_do_callback
    \/ \E w \in IrqCoproWrites : CoproWrite(w[1], w[2], 0, w[3])
    \/ \E cpnum \in {15, 1} : arm7_rt_r_callback(cpnum, 1, 0)
    \/ arm7_cpu_read32(W(\HC00, 0))
    \/ device_reset
    \/ execute_run(1)
    \/ arm7_check_irq_state
    \/ FetchInsn
    \/ ExecuteInsn

SpecIrq == InitIrq /\ [][NextIrq]_vars

\* C1: the aggregate flag is the disjunction of the six pending flags.
C1_PendingAggregate ==
    m_pending_interrupt =
        (m_pendingIrq \/ m_pendingFiq \/ m_pendingAbtD \/ m_pendingAbtP
            \/ m_pendingUnd \/ m_pendingSwi)

(***************************************************************************)
(* Properties of the execute loop                                          *)
(***************************************************************************)
\* the queue q is consistent for the next address pc: with a non-zero count,
\* the count is at most the depth and the count slots from the head on (modulo
\* the depth) hold translated words of the addresses pc, pc + 4, ...
QueueConsistent(q, pc) ==
    q.count # 0 =>
        /\ q.count \in 1..m_insn_prefetch_depth
        /\ InRing(q.index)
        /\ \A k \in 0..(q.count - 1) :
              LET slot == (q.index + k) % m_insn_prefetch_depth
              IN  /\ q.address[slot] = AddW(pc, 4 * k)
                  /\ Lo(q.translated[slot]) % 2 = 0

\* C3: every fetch through the prefetch queue gives what the fetch on demand
\* gives in the same state: the same word, or a prefetch abort in both; so the
\* two kinds of loop execute the same instructions and take the same
\* exceptions.
C3_PrefetchAsOnDemand ==
    [][(variant.at = "fetch" /\ variant.prefetch /\ op'.name = "fetch" /\ ~fatal')
          => /\ op'.ok = FetchOnDemand(variant.mmu, op'.addr).translated
             /\ op'.ok => op'.ret = FetchOnDemand(variant.mmu, op'.addr).insn]_vars

\* C9: after the queue update of an iteration and after the consumption of
\* its head, a queue with a non-zero count holds, from the head on, the words
\* of consecutive addresses starting at the next address to execute.
C9_QueueConsistent ==
    /\ (variant.at = "fetch" /\ variant.prefetch /\ ~variant.thumb /\ ~fatal)
          => LET raddr == ClearLow(m_r["R15"], 2)
             IN  QueueUpdated(variant.mmu, raddr).stop
                    \/ QueueConsistent(QueueUpdated(variant.mmu, raddr), raddr)
    /\ (variant.at = "exec" /\ variant.prefetch /\ ~fatal)
          => QueueConsistent(Queue, AddW(ClearLow(m_r["R15"], 2), 4))

\* C10: an ARM instruction whose condition is false advances R15 by 4, takes
\* exactly one cycle from the counter, and changes nothing else.
C10_UnexecutedFrame ==
    [][(variant.at = "exec" /\ op'.name = "execute" /\ ~op'.ok)
          => /\ m_r' = [m_r EXCEPT !["R15"] = AddW(m_r["R15"], 4)]
             /\ m_icount' = m_icount - 1
             /\ UNCHANGED <<m_mode, m_reg_group, pendVars, cp15Vars, faultVars,
                            s_fault_table, mem>>]_vars

(***************************************************************************)
(* Properties of the mode bookkeeping                                      *)
(***************************************************************************)
\* C2: the mode field of the CPSR, the cached mode and the register view
\* always denote the same mode.
C2_ModeViewsAgree ==
    /\ ModeOf(m_r["CPSR"]) = m_mode
    /\ m_reg_group = m_mode

(***************************************************************************)
(* Properties of the MMU                                                   *)
(***************************************************************************)
\* C4: after a write of the control register every entry of the fault table
\* is decode_fault of its key with the S and R bits of the value written.
C4_FaultTableFollowsControl ==
    (op.name = "arm7_rt_w_callback" /\ op.ok /\ op.n = 1)
       => \A index \in 0..511 :
             s_fault_table[index] =
                 decode_fault(index % 16, (index \div 16) % 4, (index \div 64) % 4,
                              Bits(Lo(op.addr), 8, 1), Bits(Lo(op.addr), 9, 1),
                              index \div 256)

\* the step is a translation or a data access
AccessStep == op'.name \in {"memory_translate", "arm7_cpu_read32", "arm7_cpu_write32"}

\* the step succeeded with the physical address paddr: a translation returns
\* it, a read returns the word at it, a write stores the word at it
AccessDone(paddr) ==
    /\ op'.ok
    /\ op'.name = "memory_translate" => op'.ret = paddr /\ mem' = mem
    /\ op'.name = "arm7_cpu_read32" =>
          /\ mem' = mem
          /\ op'.ret = IF Lo(paddr) % 4 = 0 THEN read_dword(paddr)
                       ELSE RotateRight8(read_dword(ClearLow(paddr, 2)), Lo(paddr) % 4)
    /\ op'.name = "arm7_cpu_write32" =>
          mem' = [a \in DOMAIN mem |-> IF a = ClearLow(paddr, 2) THEN WriteData ELSE mem[a]]

\* C5: with the MMU-enable bit clear every translation and data access
\* succeeds at the physical address equal to the virtual address, whatever
\* the FCSE PID, and leaves FSR, FAR and the pending flags alone.
C5_MmuOffIdentity ==
    [][(AccessStep /\ m_control % 2 = 0)
          => /\ AccessDone(op'.addr)
             /\ UNCHANGED <<faultVars, pendVars>>]_vars

\* a translation with the MMU off, a non-zero PID and an address below 32 MB
C5_Witness ==
    /\ op.name = "memory_translate"
    /\ m_control % 2 = 0
    /\ m_pid_offset # W0
    /\ op.addr = W(\H001, 4)
    /\ op.ok
    /\ op.ret = op.addr

\* the first-level descriptor the walk of vaddr reads: the entry of the
\* table at m_tlb_base for the address after the FCSE remap
WalkDescriptor(vaddr) ==
    LET mva == IF Hi(vaddr) < 32 THEN W((Hi(vaddr) + Hi(m_pid_offset)) % HiMod, Lo(vaddr))
               ELSE vaddr
    IN  read_dword(AddW(m_tlb_base, 4 * Hi(mva)))

\* C6: for a section descriptor the walk looks the fault up under the AP of
\* bits 11..10 and the domain of bits 8..5; without a fault the physical
\* address is the section base with the low 20 bits of the address; a domain
\* fault leaves 9 | domain << 4 and a permission fault 13 | domain << 4 in the
\* data FSR and fails.
C6_SectionTranslate ==
    [][(AccessStep /\ m_control % 2 = 1
           /\ Lo(WalkDescriptor(op'.addr)) % 4 = COPRO_TLB_SECTION_TABLE)
          => LET desc1 == WalkDescriptor(op'.addr)
                 ap == (Lo(desc1) \div 1024) % 4
                 domain == (Lo(desc1) \div 32) % 16
                 write == IF op'.name = "arm7_cpu_write32" THEN 1 ELSE 0
                 fault == s_fault_table[write * 256 + m_decoded_access_control[domain]
                                        + ap * 16 + m_mode]
             IN  CASE fault = FAULT_NONE ->
                        /\ AccessDone(W(Hi(desc1), Lo(op'.addr)))
                        /\ UNCHANGED faultVars
                   [] fault = FAULT_DOMAIN ->
                        /\ ~op'.ok
                        /\ m_faultStatus'[1] = W(0, 9 + domain * 16)
                        /\ mem' = mem
                   [] fault = FAULT_PERMISSION ->
                        /\ ~op'.ok
                        /\ m_faultStatus'[1] = W(0, 13 + domain * 16)
                        /\ mem' = mem]_vars

\* a translation through the section of 0x00400000, mapped to 0x00800000
C6_Witness ==
    /\ op.name = "memory_translate"
    /\ m_control % 2 = 1
    /\ m_pid_offset = W0
    /\ op.addr = W(\H004, 0)
    /\ op.ok
    /\ op.ret = W(\H008, 0)

\* the fault code and domain bits the walk of vaddr may leave in the data FSR
FaultStatusOf(vaddr) ==
    LET desc1 == WalkDescriptor(vaddr)
        domain == (Lo(desc1) \div 32) % 16
    IN  CASE Lo(desc1) % 4 = COPRO_TLB_UNMAPPED -> {W(0, 5)}
          [] Lo(desc1) % 4 = COPRO_TLB_SECTION_TABLE ->
                {W(0, 9 + domain * 16), W(0, 13 + domain * 16)}
          [] OTHER ->
                {W(0, 7 + domain * 16), W(0, 11 + domain * 16), W(0, 15 + domain * 16)}

C8_TranslationFaults ==
    [][(AccessStep /\ m_control % 2 = 1)
          => LET desc1 == WalkDescriptor(op'.addr)
                 domain == (Lo(desc1) \div 32) % 16
                 mva == IF Hi(op'.addr) < 32 THEN AddWW(op'.addr, m_pid_offset)
                        ELSE op'.addr
                 desc2 == arm7_tlb_get_second_level_descriptor(
                              Lo(desc1) % 4 = COPRO_TLB_COARSE_TABLE, desc1, mva)
             IN  /\ Lo(desc1) % 4 = COPRO_TLB_UNMAPPED =>
                       /\ ~op'.ok
                       /\ m_faultStatus'[1] = W(0, 5)
                       /\ m_faultAddress' = op'.addr
                       /\ m_pendingAbtD'
                 /\ (Lo(desc1) % 4 \in {COPRO_TLB_COARSE_TABLE, COPRO_TLB_FINE_TABLE}
                        /\ Lo(desc2) % 4 = COPRO_TLB_UNMAPPED) =>
                       /\ ~op'.ok
                       /\ m_faultStatus'[1] = W(0, 7 + domain * 16)]_vars

(***************************************************************************)
(* Properties of the pending flags                                         *)
(***************************************************************************)
\* a line is cleared while another exception stays pending
C1_Witness ==
    /\ op.name = "execute_set_input"
    /\ op.n = ARM7_IRQ_LINE
    /\ ~op.ok
    /\ ~m_pendingIrq
    /\ m_pendingUnd
    /\ m_pending_interrupt

(***************************************************************************)
(* Specification of the mode bookkeeping: set_cpsr, reset, save and load   *)
(***************************************************************************)
\* CPSR values of the seven modes, with and without the I and F masks
CpsrValues ==
    {W(0, masks + 16 + mode) : masks \in {0, 2^I_BIT + 2^F_BIT}, mode \in Modes}

InitMode == Start(<<Nop, Nop, Nop>>, FALSE, 0, W0, W0)

NextMode ==
    \/ \E val \in CpsrValues : SetCpsr(val)
    \/ device_reset
    \/ SaveState
    \/ LoadState

SpecMode == InitMode /\ [][NextMode]_vars

(***************************************************************************)
(* Properties of the cycle budget                                          *)
(***************************************************************************)
\* C11: once the counter is 0 or below after an instruction, the run is over:
\* nothing more is fetched or executed in it.
C11_ExitAtZero ==
    [][(variant.at = "exec" /\ op'.name = "execute" /\ m_icount' <= 0)
          => variant'.at = "idle"]_vars

(***************************************************************************)
(* Specification of a time slice under a fair scheduler: once execute_run  *)
(* is entered the host thread keeps running execute_core                   *)
(***************************************************************************)
\* programs of executed instructions only
LivePrograms == {<<Nop, Nop, Nop>>, <<BranchSelf, Nop, Nop>>}

\* control register and domain access control at the start of the slice: with
\* the MMU on, a domain access control of 0 makes every fetch abort
LiveMmu == {<<0, BootDacr>>, <<COPRO_CTRL_MMU_EN, W0>>}

LiveCycles == 2

InitLive ==
    \E prog \in LivePrograms, prefetch \in BOOLEAN, mmu \in LiveMmu :
        Start(prog, prefetch, mmu[1], TableBase, mmu[2])

LoopStep ==
    \/ arm7_check_irq_state
    \/ FetchInsn
    \/ ExecuteInsn

NextLive ==
    \/ \E cycles \in 1..LiveCycles : execute_run(cycles)
    \/ LoopStep

SpecLive ==
    /\ InitLive
    /\ [][NextLive]_vars
    /\ WF_vars(LoopStep)

\* C12: a run that was entered returns to the host.
C12_RunReturns == (variant.at # "idle") ~> (variant.at = "idle" \/ fatal)

(***************************************************************************)
(* Specification of the variant selection: a Thumb or an ARM program, the  *)
(* abort and undefined lines raised between slices                         *)
(***************************************************************************)
\* two MOV r8, r8 in a word
ThumbNops == W(\H46C, \H046C0)

VariantLines == {ARM7_ABORT_EXCEPTION, ARM7_UNDEFINE_EXCEPTION}

InitVariant ==
    \E prefetch \in BOOLEAN, control \in {0, COPRO_CTRL_MMU_EN} :
        \/ StartAt(ThumbRegs, <<ThumbNops, ThumbNops, ThumbNops>>, prefetch, control,
                   TableBase, BootDacr)
        \/ Start(<<McrControl, Nop, BranchBack(8)>>, prefetch, control, TableBase,
                 BootDacr)

NextVariant ==
    \/ \E irqline \in VariantLines, state \in {0, 1} : execute_set_input(irqline, state)
    \/ \E cycles \in 1..MaxCycles : execute_run(cycles)
    \/ arm7_check_irq_state
    \/ FetchInsn
    \/ FetchThumb
    \/ ExecuteInsn
    \/ ExecuteThumb

SpecVariant == InitVariant /\ [][NextVariant]_vars

\* C13: every instruction is fetched by the variant whose MMU and Thumb
\* parameters equal the MMU-enable bit of the control register and the T bit of
\* the CPSR at that fetch.
C13_FetchByMatchingVariant ==
    [][op'.name = "fetch" =>
          /\ variant.mmu = (m_control % 2 = COPRO_CTRL_MMU_EN)
          /\ variant.thumb = FlagSet(m_r["CPSR"], T_BIT)]_vars

\* the MMU half of C13 alone
VariantMmuMatches ==
    [][op'.name = "fetch" => variant.mmu = (m_control % 2 = COPRO_CTRL_MMU_EN)]_vars

(***************************************************************************)
(* Properties of reset                                                     *)
(***************************************************************************)
\* C14: after device_reset the core is in SVC mode with I and F set and T
\* clear, PC is the vector base, the six pending flags and the aggregate are
\* false, and the control register, translation table base, domain access
\* control, both fault status slots, the fault address, the FCSE PID and the
\* remap offset are zero.
C14_ResetState ==
    [][op'.name = "device_reset" =>
          /\ ModeOf(m_r'["CPSR"]) = eARM7_MODE_SVC
          /\ m_mode' = eARM7_MODE_SVC
          /\ FlagSet(m_r'["CPSR"], I_BIT)
          /\ FlagSet(m_r'["CPSR"], F_BIT)
          /\ ~FlagSet(m_r'["CPSR"], T_BIT)
          /\ m_r'["R15"] = m_vectorbase
          /\ ~m_pendingIrq' /\ ~m_pendingFiq' /\ ~m_pendingAbtD'
          /\ ~m_pendingAbtP' /\ ~m_pendingUnd' /\ ~m_pendingSwi'
          /\ ~m_pending_interrupt'
          /\ m_control' = 0
          /\ m_tlbBase' = W0
          /\ m_domainAccessControl' = W0
          /\ m_faultStatus' = <<W0, W0>>
          /\ m_faultAddress' = W0
          /\ m_fcsePID' = W0
          /\ m_pid_offset' = W0]_vars

\* a state from which the reset of C14 changes the mode, the masks, a pending
\* flag, the control register and the fault registers
ResetMatters ==
    /\ variant.at = "idle"
    /\ ~fatal
    /\ ModeOf(m_r["CPSR"]) # eARM7_MODE_SVC
    /\ m_pending_interrupt
    /\ m_control # 0
    /\ m_faultAddress # W0
    /\ m_r["R15"] # m_vectorbase

\* a reset after the core ran
C14_Witness == op.name = "device_reset" /\ m_insn # W0 /\ m_tlb_base # W0

(***************************************************************************)
(* Properties of save and load                                             *)
(***************************************************************************)
\* C15: after a load every component of the core equals the one it had at the
\* save: the registered items and view, the cached mode, the TTB pointer
\* cache and the translated field of the prefetch queue.
C15_LoadRestoresCore ==
    [][op'.name = "load" =>
          /\ SavedItems' = saved[1]
          /\ m_reg_group' = update_reg_ptr(saved[1].r["CPSR"])
          /\ UnsavedItems' = saved[2]]_vars

(***************************************************************************)
(* Specification of the ARM946ES overlay: CP15 control and register 9      *)
(* writes, 32-bit reads and writes                                         *)
(***************************************************************************)
\* control with neither, one or both of the TCM enable bits (16 and 18)
TcmControls == {W(0, \H78), W(0, \H10078), W(0, \H40078), W(0, \H50078)}

\* register 9 values: base 0x1000 with size 512, base 0x02000000 with size
\* 4096 (the reset value 0 is base 0 with size 512)
TcmRegs == {W(0, \H1000), W(\H020, 6)}

TcmAddrs == {W(0, 5), W(0, \H200), W(0, \H201), W(0, \H1200), W(0, \H1203),
             W(0, \H4003)}

TcmWriteAddrs == {W(0, \H200), W(0, \H1200)}

TcmData == W(\H123, \H45678)

InitTcm == Start(<<Nop, Nop, Nop>>, FALSE, 0, W0, W0)

NextTcm ==
    \/ \E data \in TcmControls : arm946es_rt_w_callback(15, 1, 0, 0, data)
    \/ \E op2 \in 0..2, data \in TcmRegs : arm946es_rt_w_callback(15, 9, op2, 1, data)
    \/ \E addr \in TcmAddrs : arm946es_cpu_read32(addr)
    \/ \E addr \in TcmWriteAddrs : arm946es_cpu_write32(addr, TcmData)

SpecTcm == InitTcm /\ [][NextTcm]_vars

(***************************************************************************)
(* Properties of the unaligned read and of the TCM windows                 *)
(***************************************************************************)
\* C16: a 32-bit read of an unaligned address returns the word an aligned read
\* of that address with its low two bits cleared returns, rotated right by 8
\* bits per byte of misalignment; an aligned read returns the word itself.
C16_UnalignedRotates ==
    [][op'.name = "arm946es_cpu_read32" =>
          op'.ret = IF Lo(op'.addr) % 4 # 0
                    THEN RotateRight8(arm946es_read32(tcm, ClearLow(op'.addr, 2)),
                                      Lo(op'.addr) % 4)
                    ELSE TcmPathWord(tcm, op'.addr, op'.addr)]_vars

\* the same on the default path: the read of an unaligned address that
\* translates returns the rotated word of the translated aligned address
DefaultPathRotates ==
    [][(op'.name = "arm7_cpu_read32" /\ op'.ok) =>
          LET a == IF m_control % 2 = COPRO_CTRL_MMU_EN
                   THEN arm7_tlb_translate(ClearLow(op'.addr, 2),
                                           ARM7_TLB_ABORT_D + ARM7_TLB_READ).addr
                   ELSE ClearLow(op'.addr, 2)
          IN  op'.ret = IF Lo(op'.addr) % 4 # 0
                        THEN RotateRight8(read_dword(a), Lo(op'.addr) % 4)
                        ELSE read_dword(a)]_vars

\* addresses the accessors of any width can present to the window tests
TcmProbes ==
    TcmAddrs \cup {W0, WOnes, ClearLow(WOnes, 1), ClearLow(WOnes, 2)}

\* C17: for each TCM, with its enable bit set (control bit 18 for the ITCM,
\* bit 16 for the DTCM) end = base + size and size = 512 << ((reg & 0x3F) >> 1);
\* with the bit clear the base is the all-ones sentinel and no address matches
\* the window.
C17_TcmWindows ==
    /\ IF Bits(Lo(tcm.control), 18, 1) = 1
       THEN /\ tcm.itcm_size = TcmSize(tcm.itcm_reg)
            /\ tcm.itcm_end = AddWW(tcm.itcm_base, tcm.itcm_size)
       ELSE /\ tcm.itcm_base = WOnes
            /\ tcm.itcm_end # WOnes
            /\ \A addr \in TcmProbes : ~ItcmHit(tcm, addr)
    /\ IF Bits(Lo(tcm.control), 16, 1) = 1
       THEN /\ tcm.dtcm_size = TcmSize(tcm.dtcm_reg)
            /\ tcm.dtcm_end = AddWW(tcm.dtcm_base, tcm.dtcm_size)
       ELSE /\ tcm.dtcm_base = WOnes
            /\ tcm.dtcm_end # WOnes
            /\ \A addr \in TcmProbes : ~DtcmHit(tcm, addr)

\* the DTCM enabled with base 0x1000, the ITCM disabled after its register was
\* written
C17_Witness ==
    /\ op.name = "arm946es_rt_w_callback"
    /\ Bits(Lo(tcm.control), 16, 1) = 1
    /\ Bits(Lo(tcm.control), 18, 1) = 0
    /\ tcm.dtcm_reg = W(0, \H1000)
    /\ tcm.itcm_reg = W(\H020, 6)

(***************************************************************************)
(* Properties of the FCSE remap                                            *)
(***************************************************************************)
\* the address the walk of vaddr uses: vaddr plus the PID field (bits 31..25)
\* times 32 MB below 32 MB, vaddr itself from 32 MB on
ModifiedVaddr(vaddr) ==
    IF Hi(vaddr) < 32
    THEN W(Hi(vaddr) + (Hi(m_fcsePID) \div 32) * 32, Lo(vaddr))
    ELSE vaddr

\* C18: the remap offset is ((PID >> 25) & 0x7F) * 0x02000000, and a
\* translation walks the address plus the offset for an address below
\* 0x02000000 and the address itself from 0x02000000 on: an unmapped
\* first-level entry of that address fails with it in FAR, a section entry of
\* it gives the section base with the low 20 bits of the address.
C18_FcseRemap ==
    [][/\ m_pid_offset' = W((Hi(m_fcsePID') \div 32) * 32, 0)
       /\ (AccessStep /\ m_control % 2 = 1) =>
             LET mva == ModifiedVaddr(op'.addr)
                 desc1 == read_dword(AddW(m_tlb_base, 4 * Hi(mva)))
             IN  /\ Lo(desc1) % 4 = COPRO_TLB_UNMAPPED =>
                       ~op'.ok /\ m_faultAddress' = mva
                 /\ (Lo(desc1) % 4 = COPRO_TLB_SECTION_TABLE /\ op'.ok
                        /\ op'.name = "memory_translate") =>
                       op'.ret = W(Hi(desc1), Lo(op'.addr))]_vars

\* the translation of 0x00100004 under PID field 1 goes through the section
\* of 0x02100004
C18_Witness ==
    /\ op.name = "memory_translate"
    /\ m_control % 2 = 1
    /\ m_fcsePID = W(\H020, 0)
    /\ m_pid_offset = W(\H020, 0)
    /\ op.addr = W(\H001, 4)
    /\ op.ok
    /\ op.ret = W(\H00A, 4)

\* the walk of 0xC0000000 under PID field 1 fails with the address itself
RemapLeavesHighAddress ==
    /\ op.name = "memory_translate"
    /\ m_control % 2 = 1
    /\ m_pid_offset = W(\H020, 0)
    /\ op.addr = W(\HC00, 0)
    /\ ~op.ok
    /\ m_faultAddress = W(\HC00, 0)

(***************************************************************************)
(* Specification of the input lines: every line number of the host, the    *)
(* states CLEAR_LINE, ASSERT_LINE and HOLD_LINE, in every mode              *)
(***************************************************************************)
\* the five lines and one number past them
MaxLine == 5

\* CLEAR_LINE, ASSERT_LINE, HOLD_LINE
LineStates == {0, 1, 2}

InitLines == Start(<<Nop, Nop, Nop>>, FALSE, 0, W0, W0)

NextLines ==
    \/ \E irqline \in 0..MaxLine, state \in LineStates : execute_set_input(irqline, state)
    \/ \E val \in CpsrValues : SetCpsr(val)

SpecLines == InitLines /\ [][NextLines]_vars

\* C19: execute_set_input sets the flag of the line (of the five lines) to
\* state # 0 and leaves the other individual flags, the SWI flag among them,
\* and the registers as they were; another line number changes no individual
\* flag.
C19_SetInputFrame ==
    [][op'.name = "execute_set_input" =>
          /\ m_pendingIrq' = IF op'.n = ARM7_IRQ_LINE THEN op'.ok ELSE m_pendingIrq
          /\ m_pendingFiq' = IF op'.n = ARM7_FIRQ_LINE THEN op'.ok ELSE m_pendingFiq
          /\ m_pendingAbtD' = IF op'.n = ARM7_ABORT_EXCEPTION THEN op'.ok
                              ELSE m_pendingAbtD
          /\ m_pendingAbtP' = IF op'.n = ARM7_ABORT_PREFETCH_EXCEPTION THEN op'.ok
                              ELSE m_pendingAbtP
          /\ m_pendingUnd' = IF op'.n = ARM7_UNDEFINE_EXCEPTION THEN op'.ok
                             ELSE m_pendingUnd
          /\ m_pendingSwi' = m_pendingSwi
          /\ UNCHANGED <<coreVars, cp15Vars, faultVars>>]_vars

\* the undefined line asserted with HOLD or ASSERT while the IRQ stays
\* pending, in a mode other than the reset mode
C19_Witness ==
    /\ op.name = "execute_set_input"
    /\ op.n = ARM7_UNDEFINE_EXCEPTION
    /\ op.ok
    /\ m_pendingUnd
    /\ m_pendingIrq
    /\ ~m_pendingFiq
    /\ ModeOf(m_r["CPSR"]) = eARM7_MODE_FIQ

\* a line number past the five, asserted with flags of both values in place
OtherLineAsserted ==
    /\ op.name = "execute_set_input"
    /\ op.n = MaxLine
    /\ op.ok
    /\ m_pendingAbtP
    /\ ~m_pendingIrq

(***************************************************************************)
(* Properties of the domain check of the page tables                       *)
(***************************************************************************)
\* C20: a walk through a coarse or fine first-level descriptor whose domain is
\* neither client nor manager in the domain access control fails with a
\* domain fault: the emulation goes on, failure is returned, the data FSR
\* holds a domain fault code with the domain, FAR the address walked, and the
\* data abort is pending.
C20_PageDomainFault ==
    [][(AccessStep /\ m_control % 2 = 1
           /\ Lo(WalkDescriptor(op'.addr)) % 4
                 \in {COPRO_TLB_COARSE_TABLE, COPRO_TLB_FINE_TABLE}
           /\ DomainPermission(WalkDescriptor(op'.addr)) \notin {1, 3})
          => /\ ~fatal'
             /\ ~op'.ok
             /\ m_faultStatus'[1] \in {W(0, 9 + DomainOf(WalkDescriptor(op'.addr)) * 16),
                                       W(0, 11 + DomainOf(WalkDescriptor(op'.addr)) * 16)}
             /\ m_faultAddress' = ModifiedVaddr(op'.addr)
             /\ m_pendingAbtD'
             /\ m_pending_interrupt']_vars

(***************************************************************************)
(* Second-level pages                                                       *)
(***************************************************************************)
\* the second-level descriptor the walk of vaddr reads through a coarse or a
\* fine first-level descriptor
WalkDescriptor2(vaddr) ==
    LET desc1 == WalkDescriptor(vaddr)
    IN  IF Lo(desc1) % 4 = COPRO_TLB_COARSE_TABLE
        THEN read_dword(W(Hi(desc1), (Lo(desc1) \div 1024) * 1024
                                       + ((Lo(vaddr) \div 4096) % 256) * 4))
        ELSE read_dword(W(Hi(desc1), (Lo(desc1) \div 4096) * 4096
                                       + ((Lo(vaddr) \div 1024) % 1024) * 4))

\* the step walks vaddr through a page table, with the MMU on and the domain
\* of the first-level descriptor a client or a manager, to a second-level
\* descriptor of the given type
PageStep(type) ==
    /\ AccessStep
    /\ m_control % 2 = 1
    /\ Lo(WalkDescriptor(op'.addr)) % 4 \in {COPRO_TLB_COARSE_TABLE, COPRO_TLB_FINE_TABLE}
    /\ DomainPermission(WalkDescriptor(op'.addr)) \in {1, 3}
    /\ Lo(WalkDescriptor2(op'.addr)) % 4 = type

SmallPageMapped ==
    /\ op.name = "memory_translate"
    /\ op.addr = W(\H010, \H01004)
    /\ op.ok
    /\ op.ret = W(\H00B, \H01004)

\* the fault the table holds for the access of the step under the access
\* permission ap and the domain of the first-level descriptor
PageFault(ap) ==
    LET domain == (Lo(WalkDescriptor(op'.addr)) \div 32) % 16
        write == IF op'.name = "arm7_cpu_write32" THEN 1 ELSE 0
    IN  s_fault_table[write * 256 + m_decoded_access_control[domain] + ap * 16 + m_mode]

\* C22: access permission is enforced for large and tiny pages: the AP of a
\* large page is the pair of bits 11..4 of its descriptor that bits 15..14 of
\* the address select, the AP of a tiny page is bits 5..4 of its descriptor,
\* and an access this AP forbids fails with a permission fault (data FSR 15
\* with the domain) instead of yielding a physical address.
C22_LargeTinyPermission ==
    [][/\ (PageStep(COPRO_TLB_LARGE_PAGE)
             /\ PageFault(((Lo(WalkDescriptor2(op'.addr)) \div 16)
                              \div (4 ^ ((Lo(op'.addr) \div 16384) % 4))) % 4)
                   = FAULT_PERMISSION)
            => /\ ~op'.ok
               /\ m_faultStatus'[1]
                     = W(0, 15 + ((Lo(WalkDescriptor(op'.addr)) \div 32) % 16) * 16)
       /\ (PageStep(COPRO_TLB_TINY_PAGE)
             /\ PageFault((Lo(WalkDescriptor2(op'.addr)) \div 16) % 4) = FAULT_PERMISSION)
            => /\ ~op'.ok
               /\ m_faultStatus'[1]
                     = W(0, 15 + ((Lo(WalkDescriptor(op'.addr)) \div 32) % 16) * 16)]_vars

\* what the walk does with a large or a tiny page: it yields the page base
\* with the low bits of the address, whatever the AP bits of the descriptor
LargeTinyUnchecked ==
    [][/\ PageStep(COPRO_TLB_LARGE_PAGE)
            => /\ AccessDone(W(Hi(WalkDescriptor2(op'.addr)),
                               (Lo(WalkDescriptor2(op'.addr)) \div 65536) * 65536
                                  + (Lo(op'.addr) % 65536)))
               /\ UNCHANGED faultVars
       /\ PageStep(COPRO_TLB_TINY_PAGE)
            => /\ AccessDone(W(Hi(WalkDescriptor2(op'.addr)),
                               (Lo(WalkDescriptor2(op'.addr)) \div 1024) * 1024
                                  + (Lo(op'.addr) % 1024)))
               /\ UNCHANGED faultVars]_vars

(***************************************************************************)
(* Properties of the fetch translation                                     *)
(***************************************************************************)
\* a fetch of the loop made with the MMU on that did not end in fatalerror
MmuFetchStep == variant.at = "fetch" /\ variant.mmu /\ op'.name = "fetch" /\ ~fatal'

\* the number of words from raddr on whose translation check succeeds before
\* the first one that fails, up to the depth of the queue
RECURSIVE CheckedWords(_, _)
CheckedWords(raddr, k) ==
    IF k >= m_insn_prefetch_depth \/ ~arm7_tlb_translate_check(AddW(raddr, 4 * k)).ok
    THEN k
    ELSE CheckedWords(raddr, k + 1)

\* C23: the translation check of the fetch and the queue fill that calls it
\* leave the fault status and address registers, every pending flag and the
\* aggregate flag as they were, whether the checks succeed or fail: the only
\* flags a fetch changes are the prefetch abort and the aggregate flag that
\* the loop raises when the word it consumes did not translate.  A check that
\* fails during the fill of a queue restarted at the fetch address only marks
\* its slot untranslated, the word and the address of the slot are kept.
C23_CheckLeavesFaultState ==
    [][MmuFetchStep
          => /\ UNCHANGED <<faultVars, m_pendingIrq, m_pendingFiq, m_pendingAbtD,
                            m_pendingUnd, m_pendingSwi>>
             /\ op'.ok => UNCHANGED <<m_pendingAbtP, m_pending_interrupt>>
             /\ (variant.prefetch
                   /\ m_insn_prefetch_address[m_insn_prefetch_index] # op'.addr)
                  => LET k == CheckedWords(op'.addr, 0)
                     IN  /\ \A j \in 0..(k - 1) :
                               m_insn_prefetch_translated'[j]
                                  = arm7_tlb_translate_check(AddW(op'.addr, 4 * j)).addr
                         /\ \A j \in k..(m_insn_prefetch_depth - 1) :
                               /\ m_insn_prefetch_buffer'[j] = m_insn_prefetch_buffer[j]
                               /\ m_insn_prefetch_address'[j] = m_insn_prefetch_address[j]
                               /\ m_insn_prefetch_translated'[j]
                                     = IF j = k THEN WOnes
                                       ELSE m_insn_prefetch_translated[j]]_vars

\* the loop has fetched a word through a queue whose fill met a failing check
\* at a later slot: the word is translated and nothing is pending
C23_Witness ==
    /\ op.name = "fetch"
    /\ op.ok
    /\ variant.at = "exec"
    /\ variant.mmu
    /\ variant.prefetch
    /\ \E j \in 0..2 : m_insn_prefetch_translated[j] = WOnes
    /\ ~m_pendingAbtP
    /\ ~m_pending_interrupt
    /\ m_faultStatus = <<W0, W0>>

\* C24: with the MMU and the prefetch queue on, an iteration of the loop
\* raises the prefetch abort exactly when the translation check of the
\* address it fetches fails under the page tables of that moment: a word at
\* an address that translates is never aborted, whatever earlier fills left
\* in the queue.
C24_AbortIffUntranslatable ==
    [][(MmuFetchStep /\ variant.prefetch)
          => /\ op'.ok = arm7_tlb_translate_check(op'.addr).ok
             /\ (m_pendingAbtP' /\ ~m_pendingAbtP)
                   => ~arm7_tlb_translate_check(op'.addr).ok]_vars

\* the half of C24 that holds: a fetch at an address whose translation check
\* succeeds is never aborted, also after fills that failed at later slots and
\* a branch back
TranslatableNeverAborted ==
    [][(MmuFetchStep /\ variant.prefetch /\ ~op'.ok)
          => ~arm7_tlb_translate_check(op'.addr).ok]_vars

\* C25: a Thumb fetch through the queue takes the halfword of the head word
\* that bit 1 of the PC selects (little-endian: the low half when the bit is
\* clear, the high half when set) and consumes the head, which advances by
\* one modulo the depth of the queue while the count falls by one, only when
\* bit 1 is set; so too when the fill at an untranslatable address left the
\* queue empty.
C25_ThumbFetch ==
    [][(variant.at = "fetch" /\ variant.thumb /\ variant.prefetch
           /\ ~QueueUpdated(variant.mmu, ClearLow(ClearLow(m_r["R15"], 1), 2)).stop)
          => LET pc == ClearLow(m_r["R15"], 1)
                 q == QueueUpdated(variant.mmu, ClearLow(pc, 2))
                 word == q.buffer[q.index]
             IN  /\ op'.name = "fetch"
                 /\ ~fatal'
                 /\ m_insn' = IF (Lo(pc) \div 2) % 2 = 1
                              THEN W(0, Hi(word) * 16 + Lo(word) \div 65536)
                              ELSE W(0, Lo(word) % 65536)
                 /\ m_insn_prefetch_index' =
                       IF (Lo(pc) \div 2) % 2 = 1
                       THEN (q.index + 1) % m_insn_prefetch_depth
                       ELSE q.index
                 /\ m_insn_prefetch_count' =
                       IF (Lo(pc) \div 2) % 2 = 1 THEN q.count - 1 ELSE q.count]_vars

(***************************************************************************)
(* The condition field                                                     *)
(***************************************************************************)
\* every combination of the N, Z, C and V flags, as bits 3..0
FlagNibbles == 0..15

\* the register file of user mode with the flags of the CPSR set to nzcv
FlagRegs(nzcv) ==
    [ResetRegs(eARM7_MODE_USER, NoGroup)
        EXCEPT !["CPSR"] = W((Hi(@) % 256) + nzcv * 256, Lo(@))]

InitCond ==
    \E nzcv \in FlagNibbles, cond \in COND_EQ..COND_NV :
        StartAt(FlagRegs(nzcv), <<NopCond(cond), Nop, BranchBack(8)>>, FALSE, 0,
                TableBase, BootDacr)

NextCond ==
    \/ \E cycles \in 1..MaxCycles : execute_run(cycles)
    \/ arm7_check_irq_state
    \/ FetchInsn
    \/ ExecuteInsn

SpecCond == InitCond /\ [][NextCond]_vars

\* the condition of the architecture for the codes EQ .. AL
ConditionPasses(cond, n, z, c, v) ==
    CASE cond = 0 -> z
      [] cond = 1 -> ~z
      [] cond = 2 -> c
      [] cond = 3 -> ~c
      [] cond = 4 -> n
      [] cond = 5 -> ~n
      [] cond = 6 -> v
      [] cond = 7 -> ~v
      [] cond = 8 -> c /\ ~z
      [] cond = 9 -> ~c \/ z
      [] cond = 10 -> n = v
      [] cond = 11 -> n # v
      [] cond = 12 -> ~z /\ (n = v)
      [] cond = 13 -> z \/ (n # v)
      [] cond = 14 -> TRUE

\* C26: for every combination of the flags and every condition code from EQ
\* to AL, the instruction is executed exactly when the condition of the
\* architecture holds of the flags and is skipped otherwise.
C26_ConditionTable ==
    [][(variant.at = "exec" /\ op'.name = "execute" /\ op'.n \in 0..14)
          => op'.ok = ConditionPasses(op'.n,
                                      (Hi(m_r["CPSR"]) \div 2048) % 2 = 1,
                                      (Hi(m_r["CPSR"]) \div 1024) % 2 = 1,
                                      (Hi(m_r["CPSR"]) \div 512) % 2 = 1,
                                      (Hi(m_r["CPSR"]) \div 256) % 2 = 1)]_vars

\* MOVGT r0, r0 has been skipped with Z set and N equal to V (both set)
C26_Witness ==
    /\ op.name = "execute"
    /\ op.n = COND_GT
    /\ ~op.ok
    /\ Hi(m_r["CPSR"]) \div 256 = 13

(***************************************************************************)
(* The dispatch switches                                                   *)
(***************************************************************************)
\* the call a case of a dispatch switch makes; a switch has no default, so a
\* value without a case label calls nothing
Handler(name, args) == [handler |-> name, args |-> args]
NoHandler == [handler |-> "none", args |-> <<>>]

\* a primary dispatch that calls the word-sized variant for every single
\* data transfer
PrimaryDispatch_dword_only(op_offset) ==
    CASE op_offset \in 0..63 -> Handler("HandleALU", <<>>)
      [] op_offset \in 64..127 ->
           Handler("HandleMemSingle",
                   <<IF Bits(op_offset, 5, 1) = 1 THEN "IMM_OP2" ELSE "REG_OP2",
                     IF Bits(op_offset, 4, 1) = 1 THEN "PRE_INDEXED" ELSE "POST_INDEXED",
                     IF Bits(op_offset, 3, 1) = 1 THEN "OFFSET_UP" ELSE "OFFSET_DOWN",
                     "SIZE_DWORD",
                     IF Bits(op_offset, 1, 1) = 1 THEN "WRITEBACK" ELSE "NO_WRITEBACK">>)
      [] op_offset \in 128..159 ->
           Handler("HandleMemBlock",
                   <<IF Bits(op_offset, 4, 1) = 1 THEN "PRE_INDEXED" ELSE "POST_INDEXED",
                     IF Bits(op_offset, 3, 1) = 1 THEN "OFFSET_UP" ELSE "OFFSET_DOWN",
                     IF Bits(op_offset, 2, 1) = 1 THEN "S_BIT" ELSE "NO_S_BIT",
                     IF Bits(op_offset, 1, 1) = 1 THEN "WRITEBACK" ELSE "NO_WRITEBACK">>)
      [] op_offset \in 160..191 -> Handler("HandleBranch", <<>>)
      [] op_offset \in 192..223 -> Handler("arm7ops_cd", <<>>)
      [] op_offset \in 224..239 -> Handler("arm7ops_e", <<>>)
      [] op_offset \in 240..255 -> Handler("arm7ops_f", <<>>)

\* the switch on op_offset = (m_insn & 0x0FF00000) >> 20 of execute_core: the
\* handler each case label calls, with its template arguments
PrimaryDispatch(op_offset) ==
    CASE op_offset \in {0, 4} ->
           Handler("arm7ops_0", <<"OFFSET_DOWN", "NO_FLAGS", "NO_WRITEBACK">>)
      [] op_offset \in {2, 6} ->
           Handler("arm7ops_0", <<"OFFSET_DOWN", "NO_FLAGS", "WRITEBACK">>)
      [] op_offset \in {1, 5} ->
           Handler("arm7ops_0", <<"OFFSET_DOWN", "SET_FLAGS", "NO_WRITEBACK">>)
      [] op_offset \in {3, 7} ->
           Handler("arm7ops_0", <<"OFFSET_DOWN", "SET_FLAGS", "WRITEBACK">>)
      [] op_offset \in {8, 12} ->
           Handler("arm7ops_0", <<"OFFSET_UP", "NO_FLAGS", "NO_WRITEBACK">>)
      [] op_offset \in {10, 14} ->
           Handler("arm7ops_0", <<"OFFSET_UP", "NO_FLAGS", "WRITEBACK">>)
      [] op_offset \in {9, 13} ->
           Handler("arm7ops_0", <<"OFFSET_UP", "SET_FLAGS", "NO_WRITEBACK">>)
      [] op_offset \in {11, 15} ->
           Handler("arm7ops_0", <<"OFFSET_UP", "SET_FLAGS", "WRITEBACK">>)
      [] op_offset \in {16, 20} ->
           Handler("arm7ops_1", <<"OFFSET_DOWN", "NO_FLAGS", "NO_WRITEBACK">>)
      [] op_offset \in {18, 22} ->
           Handler("arm7ops_1", <<"OFFSET_DOWN", "NO_FLAGS", "WRITEBACK">>)
      [] op_offset \in {17, 21} ->
           Handler("arm7ops_1", <<"OFFSET_DOWN", "SET_FLAGS", "NO_WRITEBACK">>)
      [] op_offset \in {19, 23} ->
           Handler("arm7ops_1", <<"OFFSET_DOWN", "SET_FLAGS", "WRITEBACK">>)
      [] op_offset \in {24, 28} ->
           Handler("arm7ops_1", <<"OFFSET_UP", "NO_FLAGS", "NO_WRITEBACK">>)
      [] op_offset \in {26, 30} ->
           Handler("arm7ops_1", <<"OFFSET_UP", "NO_FLAGS", "WRITEBACK">>)
      [] op_offset \in {25, 29} ->
           Handler("arm7ops_1", <<"OFFSET_UP", "SET_FLAGS", "NO_WRITEBACK">>)
      [] op_offset \in {27, 31} ->
           Handler("arm7ops_1", <<"OFFSET_UP", "SET_FLAGS", "WRITEBACK">>)
      [] op_offset \in {32, 34, 36, 38, 40, 42, 44, 46} ->
           Handler("HandleALU", <<"IMM_OP2", "NO_FLAGS">>)
      [] op_offset \in {33, 35, 37, 39, 41, 43, 45, 47} ->
           Handler("HandleALU", <<"IMM_OP2", "SET_FLAGS">>)
      [] op_offset \in {48, 50, 52, 54} ->
           Handler("arm7ops_3", <<"OFFSET_DOWN", "NO_FLAGS">>)
      [] op_offset \in {49, 51, 53, 55} ->
           Handler("arm7ops_3", <<"OFFSET_DOWN", "SET_FLAGS">>)
      [] op_offset \in {56, 58, 60, 62} ->
           Handler("arm7ops_3", <<"OFFSET_UP", "NO_FLAGS">>)
      [] op_offset \in {57, 59, 61, 63} ->
           Handler("arm7ops_3", <<"OFFSET_UP", "SET_FLAGS">>)
      [] op_offset \in {64, 65} ->
           Handler("HandleMemSingle", <<"REG_OP2", "POST_INDEXED", "OFFSET_DOWN", "SIZE_DWORD", "NO_WRITEBACK">>)
      [] op_offset \in {66, 67} ->
           Handler("HandleMemSingle", <<"REG_OP2", "POST_INDEXED", "OFFSET_DOWN", "SIZE_DWORD", "WRITEBACK">>)
      [] op_offset \in {68, 69} ->
           Handler("HandleMemSingle", <<"REG_OP2", "POST_INDEXED", "OFFSET_DOWN", "SIZE_BYTE", "NO_WRITEBACK">>)
      [] op_offset \in {70, 71} ->
           Handler("HandleMemSingle", <<"REG_OP2", "POST_INDEXED", "OFFSET_DOWN", "SIZE_BYTE", "WRITEBACK">>)
      [] op_offset \in {72, 73} ->
           Handler("HandleMemSingle", <<"REG_OP2", "POST_INDEXED", "OFFSET_UP", "SIZE_DWORD", "NO_WRITEBACK">>)
      [] op_offset \in {74, 75} ->
           Handler("HandleMemSingle", <<"REG_OP2", "POST_INDEXED", "OFFSET_UP", "SIZE_DWORD", "WRITEBACK">>)
      [] op_offset \in {76, 77} ->
           Handler("HandleMemSingle", <<"REG_OP2", "POST_INDEXED", "OFFSET_UP", "SIZE_BYTE", "NO_WRITEBACK">>)
      [] op_offset \in {78, 79} ->
           Handler("HandleMemSingle", <<"REG_OP2", "POST_INDEXED", "OFFSET_UP", "SIZE_BYTE", "WRITEBACK">>)
      [] op_offset \in {80, 81} ->
           Handler("HandleMemSingle", <<"REG_OP2", "PRE_INDEXED", "OFFSET_DOWN", "SIZE_DWORD", "NO_WRITEBACK">>)
      [] op_offset \in {82, 83} ->
           Handler("HandleMemSingle", <<"REG_OP2", "PRE_INDEXED", "OFFSET_DOWN", "SIZE_DWORD", "WRITEBACK">>)
      [] op_offset \in {84, 85} ->
           Handler("HandleMemSingle", <<"REG_OP2", "PRE_INDEXED", "OFFSET_DOWN", "SIZE_BYTE", "NO_WRITEBACK">>)
      [] op_offset \in {86, 87} ->
           Handler("HandleMemSingle", <<"REG_OP2", "PRE_INDEXED", "OFFSET_DOWN", "SIZE_BYTE", "WRITEBACK">>)
      [] op_offset \in {88, 89} ->
           Handler("HandleMemSingle", <<"REG_OP2", "PRE_INDEXED", "OFFSET_UP", "SIZE_DWORD", "NO_WRITEBACK">>)
      [] op_offset \in {90, 91} ->
           Handler("HandleMemSingle", <<"REG_OP2", "PRE_INDEXED", "OFFSET_UP", "SIZE_DWORD", "WRITEBACK">>)
      [] op_offset \in {92, 93} ->
           Handler("HandleMemSingle", <<"REG_OP2", "PRE_INDEXED", "OFFSET_UP", "SIZE_BYTE", "NO_WRITEBACK">>)
      [] op_offset \in {94, 95} ->
           Handler("HandleMemSingle", <<"REG_OP2", "PRE_INDEXED", "OFFSET_UP", "SIZE_BYTE", "WRITEBACK">>)
      [] op_offset \in {96, 97} ->
           Handler("HandleMemSingle", <<"IMM_OP2", "POST_INDEXED", "OFFSET_DOWN", "SIZE_DWORD", "NO_WRITEBACK">>)
      [] op_offset \in {98, 99} ->
           Handler("HandleMemSingle", <<"IMM_OP2", "POST_INDEXED", "OFFSET_DOWN", "SIZE_DWORD", "WRITEBACK">>)
      [] op_offset \in {100, 101} ->
           Handler("HandleMemSingle", <<"IMM_OP2", "POST_INDEXED", "OFFSET_DOWN", "SIZE_BYTE", "NO_WRITEBACK">>)
      [] op_offset \in {102, 103} ->
           Handler("HandleMemSingle", <<"IMM_OP2", "POST_INDEXED", "OFFSET_DOWN", "SIZE_BYTE", "WRITEBACK">>)
      [] op_offset \in {104, 105} ->
           Handler("HandleMemSingle", <<"IMM_OP2", "POST_INDEXED", "OFFSET_UP", "SIZE_DWORD", "NO_WRITEBACK">>)
      [] op_offset \in {106, 107} ->
           Handler("HandleMemSingle", <<"IMM_OP2", "POST_INDEXED", "OFFSET_UP", "SIZE_DWORD", "WRITEBACK">>)
      [] op_offset \in {108, 109} ->
           Handler("HandleMemSingle", <<"IMM_OP2", "POST_INDEXED", "OFFSET_UP", "SIZE_BYTE", "NO_WRITEBACK">>)
      [] op_offset \in {110, 111} ->
           Handler("HandleMemSingle", <<"IMM_OP2", "POST_INDEXED", "OFFSET_UP", "SIZE_BYTE", "WRITEBACK">>)
      [] op_offset \in {112, 113} ->
           Handler("HandleMemSingle", <<"IMM_OP2", "PRE_INDEXED", "OFFSET_DOWN", "SIZE_DWORD", "NO_WRITEBACK">>)
      [] op_offset \in {114, 115} ->
           Handler("HandleMemSingle", <<"IMM_OP2", "PRE_INDEXED", "OFFSET_DOWN", "SIZE_DWORD", "WRITEBACK">>)
      [] op_offset \in {116, 117} ->
           Handler("HandleMemSingle", <<"IMM_OP2", "PRE_INDEXED", "OFFSET_DOWN", "SIZE_BYTE", "NO_WRITEBACK">>)
      [] op_offset \in {118, 119} ->
           Handler("HandleMemSingle", <<"IMM_OP2", "PRE_INDEXED", "OFFSET_DOWN", "SIZE_BYTE", "WRITEBACK">>)
      [] op_offset \in {120, 121} ->
           Handler("HandleMemSingle", <<"IMM_OP2", "PRE_INDEXED", "OFFSET_UP", "SIZE_DWORD", "NO_WRITEBACK">>)
      [] op_offset \in {122, 123} ->
           Handler("HandleMemSingle", <<"IMM_OP2", "PRE_INDEXED", "OFFSET_UP", "SIZE_DWORD", "WRITEBACK">>)
      [] op_offset \in {124, 125} ->
           Handler("HandleMemSingle", <<"IMM_OP2", "PRE_INDEXED", "OFFSET_UP", "SIZE_BYTE", "NO_WRITEBACK">>)
      [] op_offset \in {126, 127} ->
           Handler("HandleMemSingle", <<"IMM_OP2", "PRE_INDEXED", "OFFSET_UP", "SIZE_BYTE", "WRITEBACK">>)
      [] op_offset \in {128, 129} ->
           Handler("HandleMemBlock", <<"POST_INDEXED", "OFFSET_DOWN", "NO_S_BIT", "NO_WRITEBACK">>)
      [] op_offset \in {130, 131} ->
           Handler("HandleMemBlock", <<"POST_INDEXED", "OFFSET_DOWN", "NO_S_BIT", "WRITEBACK">>)
      [] op_offset \in {132, 133} ->
           Handler("HandleMemBlock", <<"POST_INDEXED", "OFFSET_DOWN", "S_BIT", "NO_WRITEBACK">>)
      [] op_offset \in {134, 135} ->
           Handler("HandleMemBlock", <<"POST_INDEXED", "OFFSET_DOWN", "S_BIT", "WRITEBACK">>)
      [] op_offset \in {136, 137} ->
           Handler("HandleMemBlock", <<"POST_INDEXED", "OFFSET_UP", "NO_S_BIT", "NO_WRITEBACK">>)
      [] op_offset \in {138, 139} ->
           Handler("HandleMemBlock", <<"POST_INDEXED", "OFFSET_UP", "NO_S_BIT", "WRITEBACK">>)
      [] op_offset \in {140, 141} ->
           Handler("HandleMemBlock", <<"POST_INDEXED", "OFFSET_UP", "S_BIT", "NO_WRITEBACK">>)
      [] op_offset \in {142, 143} ->
           Handler("HandleMemBlock", <<"POST_INDEXED", "OFFSET_UP", "S_BIT", "WRITEBACK">>)
      [] op_offset \in {144, 145} ->
           Handler("HandleMemBlock", <<"PRE_INDEXED", "OFFSET_DOWN", "NO_S_BIT", "NO_WRITEBACK">>)
      [] op_offset \in {146, 147} ->
           Handler("HandleMemBlock", <<"PRE_INDEXED", "OFFSET_DOWN", "NO_S_BIT", "WRITEBACK">>)
      [] op_offset \in {148, 149} ->
           Handler("HandleMemBlock", <<"PRE_INDEXED", "OFFSET_DOWN", "S_BIT", "NO_WRITEBACK">>)
      [] op_offset \in {150, 151} ->
           Handler("HandleMemBlock", <<"PRE_INDEXED", "OFFSET_DOWN", "S_BIT", "WRITEBACK">>)
      [] op_offset \in {152, 153} ->
           Handler("HandleMemBlock", <<"PRE_INDEXED", "OFFSET_UP", "NO_S_BIT", "NO_WRITEBACK">>)
      [] op_offset \in {154, 155} ->
           Handler("HandleMemBlock", <<"PRE_INDEXED", "OFFSET_UP", "NO_S_BIT", "WRITEBACK">>)
      [] op_offset \in {156, 157} ->
           Handler("HandleMemBlock", <<"PRE_INDEXED", "OFFSET_UP", "S_BIT", "NO_WRITEBACK">>)
      [] op_offset \in {158, 159} ->
           Handler("HandleMemBlock", <<"PRE_INDEXED", "OFFSET_UP", "S_BIT", "WRITEBACK">>)
      [] op_offset \in 160..191 ->
           Handler("HandleBranch", <<>>)
      [] op_offset \in 192..223 ->
           Handler("arm7ops_cd", <<>>)
      [] op_offset \in 224..239 ->
           Handler("arm7ops_e", <<>>)
      [] op_offset \in 240..255 ->
           Handler("arm7ops_f", <<>>)
      [] OTHER -> NoHandler

\* the switch on op_offset = (m_insn & 0xF800000) >> 23 of execute_arm9_insn
execute_arm9_switch(op_offset) ==
    CASE op_offset \in {0, 1, 4, 5, 6, 7, 8, 9, 12, 13, 26, 27, 30, 31} ->
           Handler("arm9ops_undef", <<>>)
      [] op_offset \in {2, 3} ->
           Handler("arm9ops_1", <<>>)
      [] op_offset \in {10, 11, 14, 15} ->
           Handler("arm9ops_57", <<>>)
      [] op_offset \in {16, 17, 18, 19} ->
           Handler("arm9ops_89", <<>>)
      [] op_offset \in {20, 21, 22, 23} ->
           Handler("HandleBranchHBit", <<>>)
      [] op_offset \in {24, 25} ->
           Handler("arm9ops_c", <<>>)
      [] op_offset \in {28, 29} ->
           Handler("arm9ops_e", <<>>)
      [] OTHER -> NoHandler

\* a v5 decoder with no case for the branch with link and exchange
execute_arm9_insn_no_blx(insn) ==
    IF Bits(Hi(insn), 3, 5) \in 20..23
    THEN NoHandler
    ELSE execute_arm9_switch(Bits(Hi(insn), 3, 5))

\* execute_arm9_insn: the call made for m_insn
execute_arm9_insn(insn) == execute_arm9_switch(Bits(Hi(insn), 3, 5))

\* an iteration of execute_core<ARM_MODE, ., .> from the condition test to the
\* call of the handler, for any instruction word: a skipped instruction goes
\* through UNEXECUTED to the end of the loop; an executed one reaches the call
\* its switch selects, where the model leaves it (position "handler")
DecodeInsn ==
    /\ ~fatal
    /\ variant.at = "exec"
    /\ LET cond == Hi(m_insn) \div 256
           skip == cond # COND_AL /\ Unexecuted(cond, m_r["CPSR"])
           h == IF cond = COND_NV
                THEN execute_arm9_insn(m_insn)
                ELSE PrimaryDispatch(OpOffset(m_insn))
       IN  IF skip
           THEN ExecuteInsn
           ELSE /\ op' = Op(h.handler, m_r["R15"], cond, TRUE, m_insn)
                /\ variant' = [variant EXCEPT !.at = "handler"]
                /\ UNCHANGED <<coreVars, pendVars, cp15Vars, faultVars, s_fault_table,
                               queueVars, m_insn, m_icount, m_mode_changed, confVars,
                               mem, saved, fatal>>

\* the condition fields of the instruction words decoded: one tested against
\* the flags, always, and never
DecodeConds == {COND_EQ, COND_AL, COND_NV}

\* the architecture revisions of the device types (ARM7: 4, ARM9: 5)
ArchRevs == {4, 5}

\* the register file once the boot code has branched to the program
ProgramRegs == [ResetRegs(eARM7_MODE_USER, NoGroup) EXCEPT !["R15"] = ProgramBase]

InitDecode ==
    \E archRev \in ArchRevs, cond \in DecodeConds, op_offset \in 0..255 :
        StartRev(archRev, ProgramRegs, <<W(cond * 256 + op_offset, 0), Nop, Nop>>,
                 FALSE, 0, TableBase, BootDacr)

NextDecode ==
    \/ \E cycles \in 1..MaxCycles : execute_run(cycles)
    \/ arm7_check_irq_state
    \/ FetchInsn
    \/ DecodeInsn

SpecDecode == InitDecode /\ [][NextDecode]_vars

\* the handlers of the v5 decoder
Arm9Handlers ==
    {"arm9ops_undef", "arm9ops_1", "arm9ops_57", "arm9ops_89", "HandleBranchHBit",
     "arm9ops_c", "arm9ops_e"}

\* C27: an instruction with the condition field 15 is skipped as unexecuted
\* on an architecture revision below 5; on revision 5 and above it is handed
\* to the v5 decoder, which calls one of its handlers for every value of bits
\* 27..23 (the branch with link and exchange when bits 27..25 are 101) and
\* never a handler of the primary dispatch.
C27_NeverCondition ==
    [][(variant.at = "exec" /\ op' # op /\ Hi(m_insn) \div 256 = 15)
          => IF m_archRev < 5
             THEN /\ op'.name = "execute"
                  /\ ~op'.ok
                  /\ m_r'["R15"] = AddW(m_r["R15"], 4)
             ELSE /\ op'.name \in Arm9Handlers
                  /\ (op'.name = "HandleBranchHBit")
                        = ((Hi(m_insn) \div 32) % 8 = 5)
                  /\ variant'.at = "handler"]_vars

\* BLX with an immediate offset has reached its handler on a revision 5 core
C27_Witness ==
    /\ m_archRev = 5
    /\ variant.at = "handler"
    /\ op.name = "HandleBranchHBit"
    /\ Hi(op.ret) = \HFA0

\* the same word on a revision 4 core: skipped
NeverSquashed ==
    /\ m_archRev = 4
    /\ op.name = "execute"
    /\ ~op.ok
    /\ Hi(op.ret) = \HFA0

\* the handlers the families of the primary dispatch call
FamilyHandlers(op_offset) ==
    CASE op_offset \in 0..63 -> {"arm7ops_0", "arm7ops_1", "HandleALU", "arm7ops_3"}
      [] op_offset \in 64..127 -> {"HandleMemSingle"}
      [] op_offset \in 128..159 -> {"HandleMemBlock"}
      [] op_offset \in 160..191 -> {"HandleBranch"}
      [] op_offset \in 192..239 -> {"arm7ops_cd", "arm7ops_e"}
      [] op_offset \in 240..255 -> {"arm7ops_f"}

\* C28: the primary dispatch calls a handler for each of the 256 values of
\* bits 27..20, the handler of the family of the value's range, and for the
\* values 0x40..0x9F the variant whose pre/post, up/down, byte (or S-bit) and
\* writeback arguments are bits 24, 23, 22 and 21 of the instruction.
C28_PrimaryDispatch ==
    [][(variant.at = "exec" /\ variant'.at = "handler" /\ Hi(m_insn) \div 256 # 15)
          => LET o == Hi(m_insn) % 256
                 p == (Hi(m_insn) \div 16) % 2
                 u == (Hi(m_insn) \div 8) % 2
                 b == (Hi(m_insn) \div 4) % 2
                 w == (Hi(m_insn) \div 2) % 2
                 args == PrimaryDispatch(o).args
                 index == IF p = 1 THEN "PRE_INDEXED" ELSE "POST_INDEXED"
                 offset == IF u = 1 THEN "OFFSET_UP" ELSE "OFFSET_DOWN"
                 writeback == IF w = 1 THEN "WRITEBACK" ELSE "NO_WRITEBACK"
             IN  /\ op'.name = PrimaryDispatch(o).handler
                 /\ op'.name \in FamilyHandlers(o)
                 /\ o \in 64..127
                       => /\ Len(args) = 5
                          /\ args[2] = index
                          /\ args[3] = offset
                          /\ args[4] = (IF b = 1 THEN "SIZE_BYTE" ELSE "SIZE_DWORD")
                          /\ args[5] = writeback
                 /\ o \in 128..159
                       => args = <<index, offset,
                                   IF b = 1 THEN "S_BIT" ELSE "NO_S_BIT", writeback>>]_vars

\* a word with bits 27..20 = 0x7E (pre-indexed, up, byte, writeback) has
\* reached the single-transfer handler
C28_Witness ==
    /\ variant.at = "handler"
    /\ op.name = "HandleMemSingle"
    /\ Hi(op.ret) = \HE7E
    /\ PrimaryDispatch(\H7E).args
          = <<"IMM_OP2", "PRE_INDEXED", "OFFSET_UP", "SIZE_BYTE", "WRITEBACK">>

(***************************************************************************)
(* Specification of the CP15 bookkeeping: writes of the translation table  *)
(* base and of the domain access control, resets, and state saves and      *)
(* loads in any order                                                      *)
(***************************************************************************)
\* register number and value of the CP15 writes
Cp15Writes ==
    {<<2, TableBase>>, <<2, W(0, \H8123)>>,
     <<3, BootDacr>>, <<3, WOnes>>, <<3, W(\H800, 1)>>}

InitCp15 == Start(<<Nop, Nop, Nop>>, FALSE, 0, W0, W0)

NextCp15 ==
    \/ \E w \in Cp15Writes : CoproWrite(15, w[1], 0, w[2])
    \/ device_reset
    \/ SaveState
    \/ LoadState

SpecCp15 == InitCp15 /\ [][NextCp15]_vars

\* C29: the cached pointer to the first-level table always designates the
\* memory at the value of the TTB register masked by the TTB mask (bits
\* 31..14), after a TTB write, after a reset and after a state load alike.
C29_TlbBaseTracksTtb ==
    m_tlb_base = W(Hi(m_tlbBase), (Lo(m_tlbBase) \div 16384) * 16384)

\* what holds of the pointer: a TTB write sets it to the masked value written
TtbWriteSetsPointer ==
    [][(op'.name = "arm7_rt_w_callback" /\ op'.ok /\ m_tlbBase' # m_tlbBase)
          => /\ m_tlb_base' = W(Hi(m_tlbBase'), (Lo(m_tlbBase') \div 16384) * 16384)
             /\ m_tlb_base_mask' = m_tlb_base']_vars

\* C30: for each of the 16 domains the derived access-control byte is the
\* two bits of the domain in the DACR shifted to bits 7..6, after a DACR
\* write, after a reset and after a state load alike.
C30_DecodedAccessControl ==
    \A d \in 0..15 :
        m_decoded_access_control[d]
           = ((IF d < 10
               THEN Lo(m_domainAccessControl) \div (4 ^ d)
               ELSE Hi(m_domainAccessControl) \div (4 ^ (d - 10))) % 4) * 64

\* a state load has brought back the DACR 0x80000001 over another value:
\* domains 0 and 15 are decoded to 0x40 and 0x80
C30_Witness ==
    /\ op.name = "load"
    /\ m_domainAccessControl = W(\H800, 1)
    /\ saved[1].domainAccessControl = W(\H800, 1)
    /\ m_decoded_access_control[0] = 64
    /\ m_decoded_access_control[15] = 128
    /\ m_decoded_access_control[1] = 0


(***************************************************************************)
(* Properties of the ARM946ES TCM base                                     *)
(***************************************************************************)
\* C31: an enabled TCM window starts at the base field of its own lockdown
\* register (reg & ~0xFFF), the ITCM window (control bit 18) as well as the
\* DTCM window (control bit 16): a non-zero base written to the ITCM register
\* moves the ITCM window.
C31_TcmBaseFromRegister ==
    /\ Bits(Lo(tcm.control), 18, 1) = 1 =>
          tcm.itcm_base = ClearLow(tcm.itcm_reg, 12)
    /\ Bits(Lo(tcm.control), 16, 1) = 1 =>
          tcm.dtcm_base = ClearLow(tcm.dtcm_reg, 12)

\* the DTCM half of C31 on its own
DtcmBaseFromRegister ==
    Bits(Lo(tcm.control), 16, 1) = 1 =>
        tcm.dtcm_base = ClearLow(tcm.dtcm_reg, 12)

\* an enabled ITCM whose register holds the base 0x02000000
ItcmBaseWritten ==
    /\ op.name = "arm946es_rt_w_callback"
    /\ Bits(Lo(tcm.control), 18, 1) = 1
    /\ tcm.itcm_reg = W(\H020, 6)


(***************************************************************************)
(* Properties of the ARM946ES window test                                  *)
(***************************************************************************)
\* base <= addr < base + size for the ITCM and for the DTCM window
InItcmWindow(t, addr) == LeW(t.itcm_base, addr) /\ ~LeW(t.itcm_end, addr)
InDtcmWindow(t, addr) == LeW(t.dtcm_base, addr) /\ ~LeW(t.dtcm_end, addr)

\* the word an access of the aligned address addr designates when the
\* windows are half-open
HalfOpenWord(t, a, addr) ==
    IF InItcmWindow(t, a) THEN TcmWord(t.ITCM, Lo(addr) % 32768)
    ELSE IF InDtcmWindow(t, a) THEN TcmWord(t.DTCM, Lo(addr) % 16384)
    ELSE read_dword(addr)

\* C32: an access is served from the TCM array, without touching the bus,
\* exactly when base <= addr < base + size holds for an enabled window (the
\* ITCM tested first); an access at exactly base + size or beyond goes to the
\* bus and leaves the arrays alone.
C32_TcmHalfOpenWindow ==
    [][/\ op'.name = "arm946es_cpu_write32" =>
             LET a == ClearLow(op'.addr, 2)
             IN  IF InItcmWindow(tcm, a) \/ InDtcmWindow(tcm, a)
                 THEN mem' = mem
                 ELSE tcm' = tcm /\ mem' = write_dword(a, op'.ret)
       /\ op'.name = "arm946es_cpu_read32" =>
             op'.ret = IF Lo(op'.addr) % 4 # 0
                       THEN RotateRight8(HalfOpenWord(tcm, op'.addr,
                                                      ClearLow(op'.addr, 2)),
                                         Lo(op'.addr) % 4)
                       ELSE HalfOpenWord(tcm, op'.addr, op'.addr)]_vars

\* the last sentence of C32: a read that follows a write of the same aligned
\* address returns the written word, whichever path served the write
TcmWriteThenRead ==
    [][(op.name = "arm946es_cpu_write32" /\ op'.name = "arm946es_cpu_read32"
          /\ op'.addr = op.addr /\ ItcmHit(tcm, op.addr)) =>
          op'.ret = op.ret]_vars

\* the word written at base + size of the ITCM window sits in the array
WrittenAtWindowEnd ==
    /\ op.name = "arm946es_cpu_write32"
    /\ op.addr = tcm.itcm_end
    /\ Bits(Lo(tcm.control), 18, 1) = 1
    /\ tcm.ITCM[512] = TcmData


(***************************************************************************)
(* The add and subtract flag tables                                        *)
(***************************************************************************)
\* a table entry: N_MASK (bit 31), C_MASK (bit 29) and V_MASK (bit 28)
NvcEntry(n, v, c) ==
    W((IF n THEN 2^(N_BIT - 20) ELSE 0) + (IF c THEN 2^(C_BIT - 20) ELSE 0)
        + (IF v THEN 2^(V_BIT - 20) ELSE 0), 0)

\* the three loop variables of calculate_nvc_flags behind an index
NvcRn(i) == Bits(i, 2, 1)
NvcOp2(i) == Bits(i, 1, 1)
NvcRd(i) == Bits(i, 0, 1)

\* a subtract table filled with the carry expression of the add table
s_sub_nvc_flags_add_carry ==
    [i \in 0..7 |->
        LET rn == NvcRn(i) = 1
            op2 == NvcOp2(i) = 1
            rd == NvcRd(i) = 1
        IN  NvcEntry(rd, (rn # op2) /\ (rn # rd),
                     (rn /\ op2) \/ (rn /\ ~rd) \/ (op2 /\ ~rd))]

\* calculate_nvc_flags: s_add_nvc_flags[(rn << 2) | (op2 << 1) | rd]
s_add_nvc_flags ==
    [i \in 0..7 |->
        LET rn == NvcRn(i) = 1
            op2 == NvcOp2(i) = 1
            rd == NvcRd(i) = 1
        IN  NvcEntry(rd, (rn = op2) /\ (rn # rd),
                     (rn /\ op2) \/ (rn /\ ~rd) \/ (op2 /\ ~rd))]

\* calculate_nvc_flags: s_sub_nvc_flags[(rn << 2) | (op2 << 1) | rd]
s_sub_nvc_flags ==
    [i \in 0..7 |->
        LET rn == NvcRn(i) = 1
            op2 == NvcOp2(i) = 1
            rd == NvcRd(i) = 1
        IN  NvcEntry(rd, (rn # op2) /\ (rn # rd),
                     (rn /\ ~op2) \/ (rn /\ ~rd) \/ (~op2 /\ ~rd))]

\* a - b of two uint32_t
SubWW(a, b) ==
    LET borrow == IF Lo(a) < Lo(b) THEN 1 ELSE 0
    IN  W((Hi(a) + HiMod - Hi(b) - borrow) % HiMod, (Lo(a) + LoMod - Lo(b)) % LoMod)

\* the sign bit of a word and the table index of two operands and a result
SignOf(w) == BitsW(w, 31, 1)
NvcIndex(a, b, r) == SignOf(a) * 4 + SignOf(b) * 2 + SignOf(r)

\* the lookup of the add table for the operands in R0 and R1
LookupAddFlags ==
    /\ ~fatal
    /\ variant.at = "idle"
    /\ LET a == m_r["R0"]
           b == m_r["R1"]
           i == NvcIndex(a, b, AddWW(a, b))
       IN  op' = Op("s_add_nvc_flags", AddWW(a, b), i, TRUE, s_add_nvc_flags[i])
    /\ UNCHANGED <<coreVars, pendVars, cp15Vars, faultVars, s_fault_table, queueVars,
                   runVars, confVars, mem, saved, fatal>>

\* the lookup of the subtract table for the operands in R0 and R1
LookupSubFlags ==
    /\ ~fatal
    /\ variant.at = "idle"
    /\ LET a == m_r["R0"]
           b == m_r["R1"]
           i == NvcIndex(a, b, SubWW(a, b))
       IN  op' = Op("s_sub_nvc_flags", SubWW(a, b), i, TRUE, s_sub_nvc_flags[i])
    /\ UNCHANGED <<coreVars, pendVars, cp15Vars, faultVars, s_fault_table, queueVars,
                   runVars, confVars, mem, saved, fatal>>

\* operands around the sign and the carry boundaries of 32 bits
NvcOperands ==
    {W0, W(0, 1), W(0, \HFFFFF), W(1, 0), W(\H7FF, \HFFFFF), W(\H800, 0),
     W(\H800, 1), W(\HC00, 0), W(\HFFF, \HFFFFE), WOnes, W(\H400, 0),
     W(\H123, \H45678)}

InitNvc ==
    \E a \in NvcOperands, b \in NvcOperands :
        StartAt([ResetRegs(eARM7_MODE_USER, NoGroup) EXCEPT !["R0"] = a, !["R1"] = b],
                <<Nop, Nop, Nop>>, FALSE, 0, W0, W0)

NextNvc ==
    \/ LookupAddFlags
    \/ LookupSubFlags

SpecNvc == InitNvc /\ [][NextNvc]_vars

\* the high twelve bits of a word as a signed number
SignedHi(w) == IF Hi(w) >= HiMod \div 2 THEN Hi(w) - HiMod ELSE Hi(w)

\* sign, signed overflow and carry-out of a + b
TrueAddFlags(a, b) ==
    LET carryLo == (Lo(a) + Lo(b)) \div LoMod
        uhi == Hi(a) + Hi(b) + carryLo
        shi == SignedHi(a) + SignedHi(b) + carryLo
    IN  NvcEntry((uhi % HiMod) >= HiMod \div 2,
                 shi < -(HiMod \div 2) \/ shi >= HiMod \div 2,
                 uhi >= HiMod)

\* sign, signed overflow and absence of a borrow of a - b
TrueSubFlags(a, b) ==
    LET borrowLo == IF Lo(a) < Lo(b) THEN 1 ELSE 0
        uhi == Hi(a) - Hi(b) - borrowLo
        shi == SignedHi(a) - SignedHi(b) - borrowLo
    IN  NvcEntry(((uhi + HiMod) % HiMod) >= HiMod \div 2,
                 shi < -(HiMod \div 2) \/ shi >= HiMod \div 2,
                 uhi >= 0)

\* C33: the add table indexed by the signs of a, b and a + b gives the sign,
\* the signed overflow and the carry-out of a + b; the subtract table indexed
\* by the signs of a, b and a - b gives the sign, the signed overflow and the
\* absence of a borrow of a - b.
C33_NvcTables ==
    /\ op.name = "s_add_nvc_flags" => op.ret = TrueAddFlags(m_r["R0"], m_r["R1"])
    /\ op.name = "s_sub_nvc_flags" => op.ret = TrueSubFlags(m_r["R0"], m_r["R1"])

\* 0x7FFFFFFF - 0x80000000: negative result, overflow and a borrow
C33_Witness ==
    /\ op.name = "s_sub_nvc_flags"
    /\ m_r["R0"] = W(\H7FF, \HFFFFF)
    /\ m_r["R1"] = W(\H800, 0)
    /\ op.addr = WOnes
    /\ op.ret = NvcEntry(TRUE, TRUE, FALSE)

\* 0x80000000 + 0x80000000: zero result with overflow and carry
AddOverflowAndCarry ==
    /\ op.name = "s_add_nvc_flags"
    /\ m_r["R0"] = W(\H800, 0)
    /\ m_r["R1"] = W(\H800, 0)
    /\ op.ret = NvcEntry(FALSE, TRUE, TRUE)


(***************************************************************************)
(* The 26-bit program status of the ARM7500                                *)
(***************************************************************************)
\* the N, Z, C, V, I and F bits of a status word as one number: bits 31..28
\* above bits 7..6
PsrFlags(val) == BitsW(val, 28, 4) * 4 + BitsW(val, 6, 2)

\* the path set_cpsr takes: 26 -> 32, 32 -> 26, mirror in 26-bit mode, or none
PSR_26_TO_32 == 1
PSR_32_TO_26 == 2
PSR_MIRROR == 3
PSR_PLAIN == 0

PsrPath(val, cpsr) ==
    IF BitsW(val, 4, 1) # BitsW(cpsr, 4, 1)
    THEN IF BitsW(val, 4, 1) = 1 THEN PSR_26_TO_32 ELSE PSR_32_TO_26
    ELSE IF BitsW(val, 4, 1) = 0 THEN PSR_MIRROR ELSE PSR_PLAIN

\* the mirror branch with the mode bits of val copied into R15 as well
Psr26R15_with_mode(val, r15, cpsr) ==
    CASE PsrPath(val, cpsr) = PSR_26_TO_32 ->
           W(Hi(r15) % 64, (Lo(r15) \div 4) * 4)
      [] PsrPath(val, cpsr) = PSR_32_TO_26 ->
           W((Hi(r15) % 64) + BitsW(val, 28, 4) * 256 + BitsW(val, 6, 2) * 64,
             (Lo(r15) \div 4) * 4 + (Lo(val) % 4))
      [] PsrPath(val, cpsr) = PSR_MIRROR ->
           W((Hi(r15) % 64) + BitsW(val, 28, 4) * 256 + BitsW(val, 6, 2) * 64,
             (Lo(r15) \div 4) * 4 + (Lo(val) % 4))
      [] OTHER -> r15

\* the R15 arm7500_cpu_device::set_cpsr leaves
Psr26R15(val, r15, cpsr) ==
    CASE PsrPath(val, cpsr) = PSR_26_TO_32 ->
           W(Hi(r15) % 64, (Lo(r15) \div 4) * 4)
      [] PsrPath(val, cpsr) = PSR_32_TO_26 ->
           W((Hi(r15) % 64) + BitsW(val, 28, 4) * 256 + BitsW(val, 6, 2) * 64,
             (Lo(r15) \div 4) * 4 + (Lo(val) % 4))
      [] PsrPath(val, cpsr) = PSR_MIRROR ->
           W((Hi(r15) % 64) + BitsW(val, 28, 4) * 256 + BitsW(val, 6, 2) * 64,
             Lo(r15))
      [] OTHER -> r15

\* the value arm7500_cpu_device::set_cpsr stores in the CPSR
Psr26Val(val, r15, cpsr) ==
    IF PsrPath(val, cpsr) = PSR_26_TO_32
    THEN W((Hi(val) % 256) + BitsW(r15, 28, 4) * 256,
           Lo(val) - BitsW(val, 6, 2) * 64 + BitsW(r15, 26, 2) * 64)
    ELSE val

\* arm7500_cpu_device::set_cpsr
arm7500_set_cpsr(val) ==
    /\ ~fatal
    /\ variant.at = "idle"
    /\ LET cpsr == Psr26Val(val, m_r["R15"], m_r["CPSR"])
       IN  /\ m_r' = [m_r EXCEPT !["CPSR"] = cpsr,
                                 !["R15"] = Psr26R15(val, m_r["R15"], m_r["CPSR"])]
           /\ m_mode' = ModeOf(cpsr)
           /\ m_reg_group' = IF ModeOf(cpsr) # m_mode THEN update_reg_ptr(cpsr)
                             ELSE m_reg_group
    /\ op' = Op("arm7500_set_cpsr", val, PsrPath(val, m_r["CPSR"]), TRUE, m_r["R15"])
    /\ UNCHANGED <<pendVars, cp15Vars, faultVars, s_fault_table, queueVars,
                   runVars, confVars, mem, saved, fatal>>

\* status words: user and supervisor mode, 26-bit and 32-bit, four settings
\* of the flags
Psr26Values ==
    {W(f[1], f[2] + m) : f \in {<<0, 0>>, <<\HF00, \HC0>>, <<\H800, \H40>>,
                               <<\H200, \H80>>},
                         m \in {0, 3, 16, 19}}

\* program counters of 32-bit code: the reset vector, the program, a high
\* address
Psr26Counters == {W0, ProgramBase, W(\HC00, 8)}

InitPsr26 ==
    \E pc \in Psr26Counters :
        StartAt([ResetRegs(eARM7_MODE_USER, NoGroup) EXCEPT !["R15"] = pc],
                <<Nop, Nop, Nop>>, FALSE, 0, W0, W0)

NextPsr26 == \E val \in Psr26Values : arm7500_set_cpsr(val)

SpecPsr26 == InitPsr26 /\ [][NextPsr26]_vars

\* a switch to 26-bit mode followed by the switch back restores the flags
\* the first call wrote and keeps PC bits 25..2
Psr26RoundTrip ==
    (op.name = "arm7500_set_cpsr" /\ op.n = PSR_32_TO_26
       /\ op'.name = "arm7500_set_cpsr" /\ op'.n = PSR_26_TO_32) =>
        /\ PsrFlags(m_r'["CPSR"]) = PsrFlags(op.addr)
        /\ BitsW(m_r'["R15"], 2, 24) = BitsW(op.ret, 2, 24)

\* in 26-bit mode R15 carries the flags and the two low mode bits of the CPSR
Psr26Mirrored ==
    (op.name = "arm7500_set_cpsr" /\ BitsW(m_r["CPSR"], 4, 1) = 0) =>
        /\ BitsW(m_r["R15"], 26, 6) = PsrFlags(m_r["CPSR"])
        /\ BitsW(m_r["R15"], 0, 2) = BitsW(m_r["CPSR"], 0, 2)

\* C34: on the ARM7500 a set_cpsr that switches from 32-bit to 26-bit mode
\* followed by one that switches back restores the N, Z, C, V, I and F bits
\* the first call wrote and leaves PC bits 25..2 unchanged; in 26-bit mode
\* every set_cpsr keeps R15 bits 31..26 equal to the CPSR N, Z, C, V, I, F
\* and R15 bits 1..0 equal to the CPSR mode bits 1..0.
C34_Psr26 == [][Psr26RoundTrip /\ Psr26Mirrored']_vars

\* the round trip of C34 on its own
RoundTripRestores == [][Psr26RoundTrip]_vars

\* the flag half of the mirror of C34 on its own
FlagsMirrored ==
    (op.name = "arm7500_set_cpsr" /\ BitsW(m_r["CPSR"], 4, 1) = 0) =>
        BitsW(m_r["R15"], 26, 6) = PsrFlags(m_r["CPSR"])

\* a change of mode inside 26-bit mode
ModeChangedIn26 ==
    /\ op.name = "arm7500_set_cpsr"
    /\ op.n = PSR_MIRROR
    /\ BitsW(m_r["CPSR"], 0, 2) = 3
    /\ BitsW(m_r["R15"], 0, 2) = 0


FaultedReadReturnsZero ==
    /\ op.name = "arm7_cpu_read32"
    /\ m_control % 2 = COPRO_CTRL_MMU_EN
    /\ ~op.ok
    /\ op.ret = W0
    /\ mem[W(\H001, 4)] = W(\H123, \H45678)


(***************************************************************************)
(* Bounds of the prefetch queue                                            *)
(***************************************************************************)
\* the count and the head of the queue stay inside the ring
QueueInBounds ==
    /\ m_insn_prefetch_count \in 0..m_insn_prefetch_depth
    /\ m_insn_prefetch_index \in 0..(m_insn_prefetch_depth - 1)

\* the queue the fetch of this iteration consumes from, after its update
QueueAtFetch ==
    QueueUpdated(variant.mmu,
                 ClearLow(m_r["R15"], IF variant.thumb THEN 1 ELSE 2))

\* C36: the prefetch queue always has 0 <= count <= depth and
\* 0 <= head < depth, and a fetch consumes a slot only from a queue whose
\* count is at least 1, also when the fill at the current PC failed on its
\* first slot: the count never underflows and the head never advances modulo
\* zero.
C36_QueueBounds ==
    [][/\ ~fatal' => QueueInBounds'
       /\ (variant.at = "fetch" /\ variant.prefetch /\ ~variant.thumb
             /\ op'.name = "fetch") =>
             QueueAtFetch.count >= 1]_vars

\* while every fill succeeds the queue stays in bounds: the bounds hold as
\* long as no fetch met an empty queue
BoundsUntilEmptyFetch ==
    [][(QueueInBounds /\ ~fatal'
          /\ ~(variant.at = "fetch" /\ variant.prefetch /\ QueueAtFetch.count = 0)) =>
          QueueInBounds']_vars

\* the count after the fetch from a queue whose fill failed on its first slot
CountUnderflowed ==
    /\ variant.prefetch
    /\ variant.mmu
    /\ m_insn_prefetch_count = -1


(***************************************************************************)
(* Specification of the two walkers: CP15 writes, mode changes, data reads *)
(* and translation checks                                                  *)
(***************************************************************************)
\* arm7_tlb_translate_check as an operation of its own: it changes nothing
\* but may end the emulation
TranslateCheck(vaddr) ==
    /\ ~fatal
    /\ variant.at = "idle"
    /\ LET t == arm7_tlb_translate_check(vaddr)
       IN  /\ op' = Op("arm7_tlb_translate_check", vaddr, 0, t.ok, t.addr)
           /\ fatal' = t.stop
    /\ UNCHANGED <<coreVars, pendVars, cp15Vars, faultVars, s_fault_table, queueVars,
                   runVars, confVars, mem, saved>>

\* user and supervisor mode
WalkModes == {W(0, 16 + eARM7_MODE_USER), W(0, 16 + eARM7_MODE_SVC)}

\* writes to CP15 after the boot sequence: the domain access control (every
\* domain no access, the boot value) and the FCSE PID
WalkWrites == {<<3, W0>>, <<3, BootDacr>>, <<13, W(\H020, 0)>>}

\* the addresses of the data reads: a section and a small page
WalkReads == {W(\H004, 0), W(\H010, \H01404)}

InitWalk == Start(<<Nop, Nop, Nop>>, FALSE, COPRO_CTRL_MMU_EN, TableBase, BootDacr)

NextWalk ==
    \/ \E w \in WalkWrites : CoproWrite(15, w[1], 0, w[2])
    \/ \E val \in WalkModes : SetCpsr(val)
    \/ \E vaddr \in WalkReads : arm7_cpu_read32(vaddr)
    \/ \E vaddr \in TestAddrs : TranslateCheck(vaddr)

SpecWalk == InitWalk /\ [][NextWalk]_vars

\* C37: where neither routine ends the emulation, arm7_tlb_translate_check
\* succeeds exactly when arm7_tlb_translate for a read succeeds, and on
\* success both give the same physical address.
C37_CheckAgreesWithRead ==
    [][op'.name = "arm7_tlb_translate_check" =>
          LET t == arm7_tlb_translate(op'.addr, ARM7_TLB_ABORT_D + ARM7_TLB_READ)
          IN  (~fatal' /\ ~t.stop) =>
                  /\ op'.ok = t.ok
                  /\ op'.ok => op'.ret = t.addr]_vars

\* the check of the small page at 0x01001004 in user mode gave the address
\* the read translation gives
C37_Witness ==
    /\ op.name = "arm7_tlb_translate_check"
    /\ op.addr = W(\H010, \H01004)
    /\ m_mode = eARM7_MODE_USER
    /\ m_control % 2 = COPRO_CTRL_MMU_EN
    /\ op.ok
    /\ op.ret = arm7_tlb_translate(op.addr, ARM7_TLB_ABORT_D + ARM7_TLB_READ).addr

\* a check that failed where the read translation faults
CheckFailedWithRead ==
    /\ op.name = "arm7_tlb_translate_check"
    /\ m_control % 2 = COPRO_CTRL_MMU_EN
    /\ m_domainAccessControl = BootDacr
    /\ ~op.ok
    /\ ~fatal
    /\ arm7_tlb_translate(op.addr, ARM7_TLB_ABORT_D + ARM7_TLB_READ).fault


(***************************************************************************)
(* The frame of memory_translate                                           *)
(***************************************************************************)
\* C38: memory_translate never changes architectural state: the fault status
\* and fault address registers, every pending flag and the aggregate are the
\* same after the call as before it, with the MMU on or off, for a mapped as
\* for an unmapped address.
C38_TranslateFrame ==
    [][op'.name = "memory_translate" => UNCHANGED <<faultVars, pendVars>>]_vars

\* the frame holds for the calls that succeed, with the MMU on or off
SuccessfulTranslateFrame ==
    [][(op'.name = "memory_translate" /\ op'.ok) =>
          UNCHANGED <<faultVars, pendVars>>]_vars

\* a debugger translation of the unmapped address 0xC0000000 that raised the
\* data abort
TranslateRaisedAbort ==
    /\ op.name = "memory_translate"
    /\ op.addr = W(\HC00, 0)
    /\ ~op.ok
    /\ m_pendingAbtD
    /\ m_pending_interrupt
    /\ m_faultAddress = W(\HC00, 0)
    /\ m_faultStatus[1] = W(0, 5)


(***************************************************************************)
(* Specification of the permission function: evaluations of decode_fault,  *)
(* mode changes, writes of the domain access control, translation checks   *)
(***************************************************************************)
\* the fault codes as numbers
FaultCode(fault) ==
    CASE fault = FAULT_NONE -> 0
      [] fault = FAULT_DOMAIN -> 1
      [] fault = FAULT_PERMISSION -> 2

\* the six arguments of an evaluation packed as update_fault_table packs the
\* index, with system and rom above it
FaultArgs(mode, ap, access_control, system, rom, write) ==
    mode + 16 * ap + 64 * access_control + 256 * write + 512 * system + 1024 * rom

\* an evaluation of decode_fault
DecodeFault(mode, ap, access_control, system, rom, write) ==
    /\ ~fatal
    /\ variant.at = "idle"
    /\ LET fault == decode_fault(mode, ap, access_control, system, rom, write)
       IN  op' = Op("decode_fault", W0,
                    FaultArgs(mode, ap, access_control, system, rom, write),
                    fault = FAULT_NONE, W(0, FaultCode(fault)))
    /\ UNCHANGED <<coreVars, pendVars, cp15Vars, faultVars, s_fault_table, queueVars,
                   runVars, confVars, mem, saved, fatal>>

\* values of the domain access control: the boot value and every domain
\* manager
FaultDacrs == {BootDacr, WOnes}

\* the modes of the evaluations: user and a privileged mode
FaultModes == {eARM7_MODE_USER, eARM7_MODE_SVC}

InitFault == Start(<<Nop, Nop, Nop>>, FALSE, COPRO_CTRL_MMU_EN, TableBase, BootDacr)

NextFault ==
    \/ \E mode \in FaultModes, ap \in 0..3, access_control \in 0..3,
          system \in 0..1, rom \in 0..1, write \in 0..1 :
          DecodeFault(mode, ap, access_control, system, rom, write)
    \/ \E val \in WalkModes : SetCpsr(val)
    \/ \E dacr \in FaultDacrs : CoproWrite(15, 3, 0, dacr)
    \/ TranslateCheck(W(\H004, 0))

SpecFault == InitFault /\ [][NextFault]_vars

\* the index detect_fault forms for the domain d, the access permission ap
\* and the write bit
FaultIndex(d, ap, write) ==
    m_mode + 16 * ap + m_decoded_access_control[d] + write * ARM7_TLB_WRITE

\* C39: decode_fault is monotone. A Manager domain never faults; a No-access
\* or Reserved domain always gives a domain fault, whatever the access
\* permission, the mode and the access; in a Client domain an access permitted
\* in User mode is permitted in every other mode, and a permitted write
\* implies that the read is permitted; every index detect_fault and
\* detect_read_fault form lies inside the 512-entry table.
C39_DecodeFaultMonotone ==
    /\ op.name = "decode_fault" =>
          LET mode == Bits(op.n, 0, 4)
              ap == Bits(op.n, 4, 2)
              access_control == Bits(op.n, 6, 2)
              write == Bits(op.n, 8, 1)
              system == Bits(op.n, 9, 1)
              rom == Bits(op.n, 10, 1)
          IN  /\ access_control = 3 => op.ret = W(0, FaultCode(FAULT_NONE))
              /\ access_control \in {0, 2} => op.ret = W(0, FaultCode(FAULT_DOMAIN))
              /\ (access_control = 1 /\ mode = eARM7_MODE_USER /\ op.ok) =>
                    \A m \in 0..15 :
                        decode_fault(m, ap, access_control, system, rom, write)
                            = FAULT_NONE
              /\ (access_control = 1 /\ write = 1 /\ op.ok) =>
                    decode_fault(mode, ap, access_control, system, rom, 0)
                        = FAULT_NONE
    /\ \A d \in 0..15, ap \in 0..3, write \in 0..1 :
          FaultIndex(d, ap, write) \in 0..511

\* the evaluation of a user-mode read under access permission 2 in a client
\* domain, with every domain set to manager and the core in user mode
C39_Witness ==
    /\ op.name = "decode_fault"
    /\ op.n = FaultArgs(eARM7_MODE_USER, 2, 1, 0, 0, 0)
    /\ op.ok
    /\ m_domainAccessControl = WOnes
    /\ m_mode = eARM7_MODE_USER

\* a permitted write in a client domain: supervisor mode, access permission 1
PermittedClientWrite ==
    /\ op.name = "decode_fault"
    /\ op.n = FaultArgs(eARM7_MODE_SVC, 1, 1, 0, 0, 1)
    /\ op.ok

=============================================================================
